---------------------------- MODULE Spec2Model ----------------------------
(***************************************************************************)
(* A model of aeon's Catch22 transformer                                   *)
(* (aeon/transformations/collection/feature_based/_catch22.py).            *)
(*                                                                         *)
(* Python values are encoded as follows.                                   *)
(*   - A feature specification (the `features` argument) is a record       *)
(*     [t, s, i, l]: t is the Python type ("str", "int", "list", "tuple",  *)
(*     "other"), s the string, i the integer, l the elements of a list or  *)
(*     tuple (records of the same shape).  A bool is an int in Python, so  *)
(*     True is [t |-> "int", i |-> 1].                                     *)
(*   - An optional value (None or a value) is a sequence of length 0 or 1. *)
(*   - A series is a sequence of integers; a case is a sequence of series  *)
(*     (its channels); a collection is a sequence of cases.                *)
(***************************************************************************)
EXTENDS Integers, Sequences, FiniteSets, TLC

VARIABLES
    features,            \* self.features: the feature specification
    catch24,             \* self.catch24
    outlier_norm,        \* self.outlier_norm
    replace_nans,        \* self.replace_nans
    use_pycatch22,       \* self.use_pycatch22
    n_jobs,              \* self.n_jobs
    pycatch22_installed, \* what _check_soft_dependencies("pycatch22") answers
    _transform_features, \* self._transform_features (optional attribute)
    X,                   \* the collection given to _transform
    pc,                  \* position of _transform
    f_idx,               \* the resolved index list (<<>> before it is resolved)
    kernels,             \* the local `features` registry: "aeon" or "pycatch22"
    use_pycatch22_transform,
    warned,              \* whether warnings.warn was called
    task,                \* per case: the local state of its _transform_case call
    c22_list,            \* per case: the result Parallel holds for it (optional)
    Xt,                  \* the returned matrix (optional)
    bounds,              \* BoxCoxTransformer: self.bounds
    method,              \* self.method
    sp,                  \* self.sp
    lambda_,             \* self.lambda_ (optional)
    data,                \* the series given to fit: [ndim, kind]
    fit_pc,              \* position of BoxCoxTransformer._fit
    fit_error,           \* the ValueError _fit raised ("" when none)
    work,                \* the computations on the data done so far
    kx,                  \* the array a numerical helper is applied to
    kcall,               \* the helper applied to it ("none" before the call)
    kout                 \* what the helper returned

vars == <<features, catch24, outlier_norm, replace_nans, use_pycatch22, n_jobs,
          pycatch22_installed, _transform_features, X, pc, f_idx, kernels, use_pycatch22_transform,
          warned, task, c22_list, Xt, bounds, method, sp, lambda_, data, fit_pc,
          fit_error, work, kx, kcall, kout>>

numeric == <<kx, kcall, kout>>

boxcox == <<bounds, method, sp, lambda_, data, fit_pc, fit_error, work>>

catch22 == <<features, catch24, outlier_norm, replace_nans, use_pycatch22, n_jobs,
             pycatch22_installed, _transform_features, X, pc, f_idx, kernels,
             use_pycatch22_transform, warned, task, c22_list, Xt>>

config == <<features, catch24, outlier_norm, replace_nans, use_pycatch22, n_jobs,
            pycatch22_installed, _transform_features, X>>

settings == <<features, catch24, outlier_norm, replace_nans, use_pycatch22,
              n_jobs, pycatch22_installed, _transform_features>>

---------------------------------------------------------------------------
(* The name tables. *)

feature_names ==
    << "DN_HistogramMode_5",
       "DN_HistogramMode_10",
       "CO_f1ecac",
       "CO_FirstMin_ac",
       "CO_HistogramAMI_even_2_5",
       "CO_trev_1_num",
       "MD_hrv_classic_pnn40",
       "SB_BinaryStats_mean_longstretch1",
       "SB_TransitionMatrix_3ac_sumdiagcov",
       "PD_PeriodicityWang_th0_01",
       "CO_Embed2_Dist_tau_d_expfit_meandiff",
       "IN_AutoMutualInfoStats_40_gaussian_fmmi",
       "FC_LocalSimple_mean1_tauresrat",
       "DN_OutlierInclude_p_001_mdrmd",
       "DN_OutlierInclude_n_001_mdrmd",
       "SP_Summaries_welch_rect_area_5_1",
       "SB_BinaryStats_diff_longstretch0",
       "SB_MotifThree_quantile_hh",
       "SC_FluctAnal_2_rsrangefit_50_1_logi_prop_r1",
       "SC_FluctAnal_2_dfa_50_1_2_logi_prop_r1",
       "SP_Summaries_welch_rect_centroid",
       "FC_LocalSimple_mean3_stderr" >>

feature_names_short ==
    << "mode_5",
       "mode_10",
       "acf_timescale",
       "acf_first_min",
       "ami2",
       "trev",
       "high_fluctuation",
       "stretch_high",
       "transition_matrix",
       "periodicity",
       "embedding_dist",
       "ami_timescale",
       "whiten_timescale",
       "outlier_timing_pos",
       "outlier_timing_neg",
       "centroid_freq",
       "stretch_decreasing",
       "entropy_pairs",
       "rs_range",
       "dfa",
       "low_freq_power",
       "forecast_error" >>

\* Python's `x in names`.
InNames(x, names) == \E k \in 1..Len(names) : names[k] = x

\* names.index(x) counted from 1: what an off-by-one in the position gives.
IndexInOneBased(names, x) ==
    CHOOSE k \in 1..Len(names) :
        names[k] = x /\ \A j \in 1..(k - 1) : names[j] # x

\* Python's names.index(x): the 0-based position of the first occurrence.
IndexIn(names, x) ==
    (CHOOSE k \in 1..Len(names) :
        names[k] = x /\ \A j \in 1..(k - 1) : names[j] # x) - 1

---------------------------------------------------------------------------
(* _verify_features: the feature selector. *)

\* The outcome of a call: the ValueError, or the returned list.
Raise == [raised |-> TRUE, f_idx |-> <<>>]
Return(l) == [raised |-> FALSE, f_idx |-> l]

\* range(22), as a list.
BaseIndices == [k \in 1..22 |-> k - 1]

\* The name branches shared by a scalar string and a string element.
VerifyName(f, c24) ==
    IF InNames(f, feature_names_short)
    THEN Return(<<IndexIn(feature_names_short, f)>>)
    ELSE IF InNames(f, feature_names)
    THEN Return(<<IndexIn(feature_names, f)>>)
    ELSE IF c24 /\ f = "Mean" THEN Return(<<22>>)
    ELSE IF c24 /\ f = "StandardDeviation" THEN Return(<<23>>)
    ELSE Raise

\* VerifyInt without the catch24 conditions: 22 and 23 always accepted.
VerifyIntUngated(f, c24) ==
    IF f >= 0 /\ f < 24 THEN Return(<<f>>) ELSE Raise

\* The integer branches shared by a scalar integer and an integer element.

VerifyInt(f, c24) ==
    IF f >= 0 /\ f < 22 THEN Return(<<f>>)
    ELSE IF c24 /\ f = 22 THEN Return(<<22>>)
    ELSE IF c24 /\ f = 23 THEN Return(<<23>>)
    ELSE Raise

\* One element of a list or tuple.
VerifyElement(f, c24) ==
    IF f.t = "str" THEN VerifyName(f.s, c24)
    ELSE IF f.t = "int" THEN VerifyInt(f.i, c24)
    ELSE Raise

\* VerifyLoop returning the indices appended so far when an element is invalid.
RECURSIVE VerifyLoopPartial(_, _, _, _)
VerifyLoopPartial(l, c24, k, f_acc) ==
    IF k > Len(l) THEN Return(f_acc)
    ELSE LET r == VerifyElement(l[k], c24)
         IN  IF r.raised THEN Return(f_acc)
             ELSE VerifyLoopPartial(l, c24, k + 1, f_acc \o r.f_idx)

\* VerifyLoop keeping the list in ascending order of its last two indices.
RECURSIVE VerifyLoopSorted(_, _, _, _)
VerifyLoopSorted(l, c24, k, f_acc) ==
    IF k > Len(l) THEN Return(f_acc)
    ELSE LET r == VerifyElement(l[k], c24)
         IN  IF r.raised THEN Raise
             ELSE IF f_acc # <<>> /\ r.f_idx[1] < f_acc[Len(f_acc)]
             THEN VerifyLoopSorted(l, c24, k + 1, r.f_idx \o f_acc)
             ELSE VerifyLoopSorted(l, c24, k + 1, f_acc \o r.f_idx)

\* The loop over a list or tuple, from element k on, f_acc being the indices
\* appended so far; the local list is lost when an element raises.
RECURSIVE VerifyLoop(_, _, _, _)
VerifyLoop(l, c24, k, f_acc) ==
    IF k > Len(l) THEN Return(f_acc)
    ELSE LET r == VerifyElement(l[k], c24)
         IN  IF r.raised THEN Raise
             ELSE VerifyLoop(l, c24, k + 1, f_acc \o r.f_idx)

\* VerifyAll without the catch24 extension.
VerifyAllShort(c24) == Return(BaseIndices)

\* The "all" branch.

VerifyAll(c24) ==
    Return(IF c24 THEN BaseIndices \o <<22, 23>> ELSE BaseIndices)

_verify_features(f, c24) ==
    IF f.t = "str"
    THEN IF f.s = "all" THEN VerifyAll(c24) ELSE VerifyName(f.s, c24)
    ELSE IF f.t = "int" THEN VerifyInt(f.i, c24)
    ELSE IF f.t \in {"list", "tuple"}
    THEN IF Len(f.l) > 0 THEN VerifyLoop(f.l, c24, 1, <<>>) ELSE Raise
    ELSE Raise

---------------------------------------------------------------------------
(* The values a feature matrix holds and the arguments kernels receive.     *)
(*                                                                          *)
(* An argument or shared quantity is a record [name, of, val]: `of` is the  *)
(* series it was computed from, `val` the integers the model computes for   *)
(* it (the minimum, the maximum, <<sum, length>> for the mean, the FFT      *)
(* length, the series length); the floating-point vectors themselves are    *)
(* not computed.  A matrix entry is a record [kind, reg, k, args, cleaned]: *)
(* the 0.0 np.zeros writes, or the application of kernel k of registry reg  *)
(* to args; `cleaned` says that np.nan_to_num was applied to it.            *)

RECURSIVE SeqSum(_)
SeqSum(s) == IF s = <<>> THEN 0 ELSE s[1] + SeqSum(Tail(s))

SeqMin(s) == CHOOSE m \in {s[k] : k \in 1..Len(s)} : \A k \in 1..Len(s) : m <= s[k]
SeqMax(s) == CHOOSE m \in {s[k] : k \in 1..Len(s)} : \A k \in 1..Len(s) : m >= s[k]

RECURSIVE Pow2(_)
Pow2(e) == IF e = 0 THEN 1 ELSE 2 * Pow2(e - 1)

\* ceil(log2(n)) for n >= 1: the least e with 2^e >= n.
RECURSIVE CeilLog2From(_, _)
CeilLog2From(n, e) == IF Pow2(e) >= n THEN e ELSE CeilLog2From(n, e + 1)
CeilLog2(n) == CeilLog2From(n, 0)

Arg(name, series, val) == [name |-> name, of |-> series, val |-> val]

SeriesArg(series) == Arg("series", series, series)
numba_min(series) == Arg("smin", series, <<SeqMin(series)>>)
numba_max(series) == Arg("smax", series, <<SeqMax(series)>>)
mean(series) == Arg("smean", series, <<SeqSum(series), Len(series)>>)
z_normalise_series_with_mean(series, smean) ==
    Arg("outlier_series", series, smean.val)
z_normalise_series(series) == Arg("outlier_series", series, <<>>)
\* np.fft.fft(series - smean, n=nfft), nfft = 2 ** ceil(log2(len(series)))
np_fft(series, smean) == Arg("fft", series, <<Pow2(CeilLog2(Len(series)))>>)
_compute_autocorrelations(series) == Arg("ac", series, <<>>)
_ac_first_zero(ac) == Arg("acfz", ac.of, <<>>)
LenArg(series) == Arg("len", series, <<Len(series)>>)

Zero == [kind |-> "zero", reg |-> "", k |-> 0, args |-> <<>>, cleaned |-> FALSE]
Call(reg, k, args) ==
    [kind |-> "call", reg |-> reg, k |-> k, args |-> args, cleaned |-> FALSE]
\* The value of a shared quantity, stored as it is.
Stored(k, q) ==
    [kind |-> "stored", reg |-> "", k |-> k, args |-> <<q>>, cleaned |-> FALSE]

\* np.zeros(n)
Zeros(n) == [k \in 1..n |-> Zero]

\* np.nan_to_num(v, False, 0, 0, 0) on one entry: 0.0 stays 0.0; any other
\* entry is NaN or Inf or finite, and is 0 or itself accordingly.
nan_to_num(v) == IF v.kind = "zero" THEN v ELSE [v EXCEPT !.cleaned = TRUE]

---------------------------------------------------------------------------
(* The native kernels, by the way an invocation ends.                       *)
(*                                                                          *)
(* A kernel is modelled by the class of its result: "nan", "zero" (exactly  *)
(* 0), "finite" (a finite number), "number" (a float of any class),         *)
(* "raise" (an exception leaves the kernel: the compiled code checks every  *)
(* divisor for zero) or "either" (the code reads or writes outside an       *)
(* array, which is not checked, or reduces an empty array: a number or an   *)
(* exception, as the build has it).  The class follows the kernel's         *)
(* branches on the length of its input and on the shared minimum and        *)
(* maximum; the floating-point result itself is not computed.               *)

\* len(X) of a kernel's first argument, the series or its normalisation.
XLen(a) == Len(a.of)

\* _histogram_mode without the test of the bin width.
HistogramModeUnguarded(x, num_bins, smin, smax) == "finite"

\* bin_width = (smax - smin) / num_bins; `if bin_width == 0: return np.nan`,
\* else max_sum / num_maxs with num_maxs >= 1.
_histogram_mode(x, num_bins, smin, smax) ==
    LET srange == smax.val[1] - smin.val[1]
    IN  IF srange = 0 THEN "nan" ELSE "finite"

_DN_HistogramMode_5(x, smin, smax) == _histogram_mode(x, 5, smin, smax)
_DN_HistogramMode_10(x, smin, smax) == _histogram_mode(x, 10, smin, smax)

\* v = 1.0 / (len(X) - 2); with one sample the loops are empty and nsum = 0.
_CO_HistogramAMI_even_2_5(x, smin, smax) ==
    IF XLen(x) - 2 = 0 THEN "raise"
    ELSE IF XLen(x) - 2 < 0 THEN "zero"
    ELSE "number"

\* y = np.zeros(len(X) - 1); return np.mean(y)
_CO_trev_1_num(x) == IF XLen(x) - 1 = 0 THEN "either" ELSE "number"

\* diffs = np.zeros(len(X) - 1); return nsum / len(diffs)
_MD_hrv_classic_pnn40(x) == IF XLen(x) - 1 = 0 THEN "raise" ELSE "number"

\* tau = min(40, ceil(len / 2)); the least lag_size, len - tau, divides meanX.
_IN_AutoMutualInfoStats_40_gaussian_fmmi(X_ac) ==
    LET n == XLen(X_ac)
        half == (n + 1) \div 2
        tau == IF half < 40 THEN half ELSE 40
    IN  IF n - tau = 0 THEN "raise" ELSE "number"

\* tau is acfz (>= 1) or, when that is more than len / 10, int(len / 10);
\* d = np.zeros(len - tau - 1); d_mean /= len(d).
_CO_Embed2_Dist_tau_d_expfit_meandiff(x, acfz) ==
    LET n == XLen(x)
        tau_max == n \div 10
    IN  IF n - tau_max - 1 = 0 THEN "raise" ELSE "number"

\* tmp = sizes_r2[i][j] / (np.float64(len(X)) - 1.0)
_SB_MotifThree_quantile_hh(x) == IF XLen(x) - 1 = 0 THEN "raise" ELSE "number"

\* `if len(X) < 2: return 0`, else _ac_first_zero(ac) / acfz with acfz >= 1.
_FC_LocalSimple_mean1_tauresrat(x, acfz) ==
    IF XLen(x) < 2 THEN "zero" ELSE "finite"

\* `if len(X) - 3 < 3: return 0`
_FC_LocalSimple_mean3_stderr(x) == IF XLen(x) - 3 < 3 THEN "zero" ELSE "number"

\* _fluct_prop: `if n_tau < 12: return np.nan`.  With og_length / 2 <= 5 the
\* scales a[] are rounded from [og_length / 2, 5]: fewer than 12 of them.
_fluct_prop(n_cs, og_length) == IF og_length <= 10 THEN "nan" ELSE "number"

\* cs = np.zeros(len(X)); cs[0] = X[0]
_SC_FluctAnal_2_rsrangefit_50_1_logi_prop_r1(x) == _fluct_prop(XLen(x), XLen(x))

\* cs = np.zeros(int(len(X) / 2)); cs[0] = X[0]
_SC_FluctAnal_2_dfa_50_1_2_logi_prop_r1(x) ==
    IF XLen(x) \div 2 = 0 THEN "either" ELSE _fluct_prop(XLen(x) \div 2, XLen(x))

\* new_length = int(len(X_fft) / 2) + 1; the centroid is w[i] of the first i
\* in 1..new_length-1 past the threshold, else NaN; the area reads w[1].
_summaries_welch_rect(x, centroid, X_fft) ==
    LET new_length == X_fft.val[1] \div 2 + 1
    IN  IF centroid THEN (IF new_length = 1 THEN "nan" ELSE "number")
        ELSE (IF new_length = 1 THEN "either" ELSE "number")

_SP_Summaries_welch_rect_area_5_1(x, X_fft) == _summaries_welch_rect(x, FALSE, X_fft)
_SP_Summaries_welch_rect_centroid(x, X_fft) == _summaries_welch_rect(x, TRUE, X_fft)

\* The ascending arrangement of a series.
RECURSIVE InsertSorted(_, _)
InsertSorted(v, s) ==
    IF s = <<>> THEN <<v>>
    ELSE IF v <= s[1] THEN <<v>> \o s
    ELSE <<s[1]>> \o InsertSorted(v, Tail(s))

RECURSIVE Ascending(_)
Ascending(s) == IF s = <<>> THEN <<>> ELSE InsertSorted(s[1], Ascending(Tail(s)))

\* np_sort sorting the array it is given in place.
NpSortInPlace(x) == [out |-> Ascending(x), arg |-> Ascending(x)]

\* tmp = np.sort(X): `out` is the sorted copy it returns, `arg` the array it
\* was given, as the call leaves it.
np_sort(x) == [out |-> Ascending(x), arg |-> x]

\* _quantile(X, quant) sorts a copy and reads tmp and len(X) only; this is X
\* as the call leaves it.
QuantileLeaves(x) == np_sort(x).arg

\* _sb_coarsegrain(y, num_groups, labels) calls _quantile(y, .) and writes to
\* th, ls and labels; this is y as the call leaves it.
CoarsegrainLeaves(y) == QuantileLeaves(y)

\* -X: `out` is the new array of the negated samples, `arg` the array it
\* was given, as the negation leaves it.
np_negative(x) == [out |-> [k \in DOMAIN x |-> 0 - x[k]], arg |-> x]

\* The array a native kernel was given as its first argument, as the kernel
\* leaves it.  _SB_MotifThree_quantile_hh hands it to _sb_coarsegrain;
\* _DN_OutlierInclude_n_001_mdrmd hands the new array -X to _outlier_include;
\* _SB_TransitionMatrix_3ac_sumdiagcov hands the new array ds to
\* _sb_coarsegrain; the other kernels only read it and write to arrays they
\* allocate.
KernelLeaves(feature, x) ==
    IF feature = 17 THEN CoarsegrainLeaves(x)
    ELSE IF feature = 14 THEN np_negative(x).arg
    ELSE x

\* features[feature](*args) with the native registry.
NativeKernel(feature, args) ==
    CASE feature = 0 -> _DN_HistogramMode_5(args[1], args[2], args[3])
      [] feature = 1 -> _DN_HistogramMode_10(args[1], args[2], args[3])
      [] feature = 4 -> _CO_HistogramAMI_even_2_5(args[1], args[2], args[3])
      [] feature = 5 -> _CO_trev_1_num(args[1])
      [] feature = 6 -> _MD_hrv_classic_pnn40(args[1])
      [] feature = 10 -> _CO_Embed2_Dist_tau_d_expfit_meandiff(args[1], args[2])
      [] feature = 11 -> _IN_AutoMutualInfoStats_40_gaussian_fmmi(args[1])
      [] feature = 12 -> _FC_LocalSimple_mean1_tauresrat(args[1], args[2])
      [] feature = 15 -> _SP_Summaries_welch_rect_area_5_1(args[1], args[2])
      [] feature = 17 -> _SB_MotifThree_quantile_hh(args[1])
      [] feature = 18 -> _SC_FluctAnal_2_rsrangefit_50_1_logi_prop_r1(args[1])
      [] feature = 19 -> _SC_FluctAnal_2_dfa_50_1_2_logi_prop_r1(args[1])
      [] feature = 20 -> _SP_Summaries_welch_rect_centroid(args[1], args[2])
      [] feature = 21 -> _FC_LocalSimple_mean3_stderr(args[1])
      [] OTHER -> "number"

\* The class of a matrix entry before np.nan_to_num: 0.0, the stored mean or
\* np.std of a series of finite samples, a native kernel's result, or the
\* result of a pycatch22 function.
RawClass(e) ==
    IF e.kind = "zero" THEN "zero"
    ELSE IF e.kind = "stored" \/ e.reg \in {"np.std", "np.mean"} THEN "finite"
    ELSE IF e.reg = "aeon"
    THEN LET c == NativeKernel(e.k, e.args)
         IN  IF c \in {"raise", "either"} THEN "number" ELSE c
    ELSE "number"

\* The class of a matrix entry: np.nan_to_num(., False, 0, 0, 0) turns NaN
\* and the infinities into 0 and leaves a finite entry as it is.
ValueClass(e) ==
    LET c == RawClass(e)
    IN  IF ~e.cleaned THEN c
        ELSE IF c = "nan" THEN "zero"
        ELSE IF c = "number" THEN "finite"
        ELSE c

---------------------------------------------------------------------------
(* _transform_case and _transform_case_pycatch22: one call per case.        *)
(*                                                                          *)
(* The local state of a call: st (pending, running, done), the channel      *)
(* index ch and the position n in f_idx the loops stand at (0-based),       *)
(* f_count, the output vector c22, the optional shared quantities, and      *)
(* counters: the kernel invocations, the shared-quantity computations of    *)
(* the driver, and `times`, how often each shared quantity of the current   *)
(* series has been computed, by the driver or inside a helper.              *)

SharedNames == {"smin", "smax", "smean", "fft", "ac", "acfz"}

NoTimes == [q \in SharedNames |-> 0]

PendingTask ==
    [st |-> "pending", ch |-> 0, n |-> 0, f_count |-> -1, c22 |-> <<>>,
     outlier_series |-> <<>>, smin |-> <<>>, smax |-> <<>>, smean |-> <<>>,
     fft |-> <<>>, ac |-> <<>>, acfz |-> <<>>, ncalls |-> 0, nshared |-> 0,
     times |-> NoTimes]

\* NewC22 sized for one channel only.
NewC22Short(fidx, case) == Zeros(Len(fidx))

\* c22 = np.zeros(len(f_idx) * len(X))
NewC22(fidx, case) == Zeros(Len(fidx) * Len(case))

\* Dim with the channel count in the place of the feature count.
DimOfChannelCount(i, fidx, case) == i * Len(case)

\* dim = i * len(f_idx)
Dim(i, fidx, case) == i * Len(fidx)

\* The entry of a call: the vector is allocated, f_count = -1.
EnterCase(fidx, case) ==
    [PendingTask EXCEPT !.st = "running", !.c22 = NewC22(fidx, case)]

\* ResetShared leaving the quantities of the channel before in place.
ResetNothing(t) == t

\* The None assignments at the top of a channel's iteration.
ResetShared(t) ==
    [t EXCEPT !.outlier_series = <<>>, !.smin = <<>>, !.smax = <<>>,
              !.smean = <<>>, !.fft = <<>>, !.ac = <<>>, !.acfz = <<>>]

\* `if q is None: q = compute`
OrCompute(q, fresh) == IF q = <<>> THEN <<fresh>> ELSE q
Miss(q) == IF q = <<>> THEN 1 ELSE 0

\* The if/elif chain that fills the shared quantities and builds args for
\* one feature; yields the updated locals and args.
PrepareArgs(t, series, feature, onorm) ==
    IF feature \in {0, 1, 4}
    THEN LET smin == OrCompute(t.smin, numba_min(series))
             smax == OrCompute(t.smax, numba_max(series))
         IN  [t |-> [t EXCEPT !.smin = smin, !.smax = smax,
                              !.nshared = @ + Miss(t.smin) + Miss(t.smax)],
              args |-> <<SeriesArg(series), smin[1], smax[1]>>]
    ELSE IF feature \in {7, 22}
    THEN LET smean == OrCompute(t.smean, mean(series))
         IN  [t |-> [t EXCEPT !.smean = smean, !.nshared = @ + Miss(t.smean)],
              args |-> <<SeriesArg(series), smean[1]>>]
    ELSE IF feature \in {13, 14}
    THEN IF onorm
         THEN LET smean == OrCompute(t.smean, mean(series))
                  os == OrCompute(t.outlier_series,
                                  z_normalise_series_with_mean(series, smean[1]))
              IN  [t |-> [t EXCEPT !.smean = smean, !.outlier_series = os,
                                   !.nshared = @ + Miss(t.smean)
                                                 + Miss(t.outlier_series)],
                   args |-> <<os[1]>>]
         ELSE [t |-> t, args |-> <<SeriesArg(series)>>]
    ELSE IF feature \in {15, 20}
    THEN LET smean == OrCompute(t.smean, mean(series))
             fft == OrCompute(t.fft, np_fft(series, smean[1]))
         IN  [t |-> [t EXCEPT !.smean = smean, !.fft = fft,
                              !.nshared = @ + Miss(t.smean) + Miss(t.fft)],
              args |-> <<SeriesArg(series), fft[1]>>]
    ELSE IF feature \in {2, 3}
    THEN LET ac == OrCompute(t.ac, _compute_autocorrelations(series))
         IN  [t |-> [t EXCEPT !.ac = ac, !.nshared = @ + Miss(t.ac)],
              args |-> <<ac[1], LenArg(series)>>]
    ELSE IF feature \in {12, 10, 8}
    THEN LET ac == OrCompute(t.ac, _compute_autocorrelations(series))
             acfz == OrCompute(t.acfz, _ac_first_zero(ac[1]))
         IN  [t |-> [t EXCEPT !.ac = ac, !.acfz = acfz,
                              !.nshared = @ + Miss(t.ac) + Miss(t.acfz)],
              args |-> <<SeriesArg(series), acfz[1]>>]
    ELSE [t |-> t, args |-> <<SeriesArg(series)>>]

\* 1 when the iteration assigned the quantity, which was None before it.
Fresh(before, after) == IF before = <<>> /\ after # <<>> THEN 1 ELSE 0

\* How often the iteration that took the locals from `before` to `after`
\* computed each shared quantity of its series: once for every assignment
\* of the driver, and the mean once more inside _compute_autocorrelations,
\* which takes np.mean(X) of the series it is given.
TimesIn(before, after) ==
    [q \in SharedNames |->
        IF q = "smean"
        THEN Fresh(before.smean, after.smean) + Fresh(before.ac, after.ac)
        ELSE Fresh(before[q], after[q])]

\* NativeValue calling every kernel on the series alone.
NativeValueSeriesOnly(t, series, feature, args, reg) ==
    IF feature = 22 THEN Stored(22, t.smean[1])
    ELSE IF feature = 23 THEN Call("np.std", 23, <<SeriesArg(series)>>)
    ELSE Call(reg, feature, <<SeriesArg(series)>>)

\* The three-way assignment to c22[dim + n] that ends the native loop body.
NativeValue(t, series, feature, args, reg) ==
    IF feature = 22 THEN Stored(22, t.smean[1])
    ELSE IF feature = 23 THEN Call("np.std", 23, <<SeriesArg(series)>>)
    ELSE Call(reg, feature, args)

\* The position the loops stand at after the body at (ch, n).
Advance(t, fidx) ==
    IF t.n + 1 < Len(fidx) THEN [t EXCEPT !.n = @ + 1]
    ELSE [t EXCEPT !.n = 0, !.ch = @ + 1]

\* One iteration of the inner loop of _transform_case, at channel t.ch and
\* position t.n, preceded by the channel's None assignments when n = 0.
TransformCaseStep(t, case, fidx, onorm, reg) ==
    LET series == case[t.ch + 1]
        feature == fidx[t.n + 1]
        dim == Dim(t.ch, fidx, case)
        t0 == IF t.n = 0 THEN [ResetShared(t) EXCEPT !.times = NoTimes] ELSE t
        t1 == [t0 EXCEPT !.f_count = @ + 1]
        p == PrepareArgs(t1, series, feature, onorm)
        v == NativeValue(p.t, series, feature, p.args, reg)
        done == TimesIn(t1, p.t)
        t2 == [p.t EXCEPT !.c22[dim + t.n + 1] = v,
                          !.ncalls = @ + (IF feature \in {22, 23} THEN 0 ELSE 1),
                          !.times = [q \in SharedNames |-> @[q] + done[q]]]
    IN  Advance(t2, fidx)

\* `3 in f_idx or 4 in f_idx`
Has3or4(fidx) == \E k \in 1..Len(fidx) : fidx[k] \in {3, 4}

\* One iteration of the inner loop of _transform_case_pycatch22; when n = 0
\* it is preceded by the channel's `series = list(X[i])` and, under
\* outlier_norm with 3 or 4 selected, `outlier_series = ...`.
TransformCasePycatch22Step(t, case, fidx, onorm, reg) ==
    LET series == case[t.ch + 1]
        feature == fidx[t.n + 1]
        dim == Dim(t.ch, fidx, case)
        t0 == IF t.n = 0 /\ onorm /\ Has3or4(fidx)
              THEN [t EXCEPT !.outlier_series = <<z_normalise_series(series)>>,
                             !.nshared = @ + 1]
              ELSE t
        t1 == [t0 EXCEPT !.f_count = @ + 1]
        first == onorm /\ feature \in {3, 4}
        v == IF feature = 22 THEN Call("np.mean", 22, <<SeriesArg(series)>>)
             ELSE IF feature = 23 THEN Call("np.std", 23, <<SeriesArg(series)>>)
             ELSE Call(reg, feature, <<SeriesArg(series)>>)
        t2 == [t1 EXCEPT !.c22[dim + t.n + 1] = v,
                         !.ncalls = @ + (IF first THEN 1 ELSE 0)
                                      + (IF feature \in {22, 23} THEN 0 ELSE 1)]
    IN  Advance(t2, fidx)

\* The local transform_feature of a call: the attribute when the
\* transformer has it and its length is that of c22, [True] * len(c22)
\* otherwise.
transform_feature(c22) ==
    IF _transform_features # <<>> /\ Len(_transform_features[1]) = Len(c22)
    THEN _transform_features[1]
    ELSE [k \in 1..Len(c22) |-> TRUE]

\* `f_count += 1` and `if not transform_feature[f_count]`, for the
\* iteration a call with locals t stands at.
Skipped(t) ==
    LET mask == transform_feature(t.c22)
    IN  (t.f_count + 2) \in DOMAIN mask /\ ~mask[t.f_count + 2]

\* An iteration of _transform_case that ends at `continue`: the channel's
\* None assignments when n = 0, and f_count.
TransformCaseSkip(t, case, fidx) ==
    LET t0 == IF t.n = 0 THEN [ResetShared(t) EXCEPT !.times = NoTimes] ELSE t
    IN  Advance([t0 EXCEPT !.f_count = @ + 1], fidx)

\* An iteration of _transform_case_pycatch22 that ends at `continue`; the
\* channel's outlier_series is assigned ahead of the inner loop.
TransformCasePycatch22Skip(t, case, fidx, onorm) ==
    LET series == case[t.ch + 1]
        t0 == IF t.n = 0 /\ onorm /\ Has3or4(fidx)
              THEN [t EXCEPT !.outlier_series = <<z_normalise_series(series)>>,
                             !.nshared = @ + 1]
              ELSE t
    IN  Advance([t0 EXCEPT !.f_count = @ + 1], fidx)

\* Whether the loops of a running call have ended (`return c22` is next).
LoopsDone(t, case) == t.ch >= Len(case)

\* The way the kernel invocation of the iteration at (t.ch, t.n) ends.  The
\* stored mean and np.std are numbers; so are the functions of pycatch22.
KernelEnd(t, case, fidx, onorm, reg) ==
    LET series == case[t.ch + 1]
        feature == fidx[t.n + 1]
        t0 == IF t.n = 0 THEN ResetShared(t) ELSE t
    IN  IF reg # "aeon" \/ feature \in {22, 23} THEN "number"
        ELSE NativeKernel(feature, PrepareArgs(t0, series, feature, onorm).args)

\* The series of channel t.ch as the iteration at (t.ch, t.n) leaves it.  A
\* native kernel is given the array itself unless its argument is the
\* normalised series or the autocorrelation; _transform_case_pycatch22 hands
\* the copy list(X[i]) to every function.
SeriesLeft(t, case, fidx, onorm, native) ==
    LET series == case[t.ch + 1]
        feature == fidx[t.n + 1]
        t0 == IF t.n = 0 THEN ResetShared(t) ELSE t
        args == PrepareArgs(t0, series, feature, onorm).args
    IN  IF native /\ feature \notin {22, 23} /\ args[1].name = "series"
        THEN KernelLeaves(feature, series)
        ELSE series

\* Whether an invocation that ends as c raises.
Raises(c) ==
    IF c = "raise" THEN {TRUE} ELSE IF c = "either" THEN BOOLEAN ELSE {FALSE}

---------------------------------------------------------------------------
(* Bounds and the inputs drawn from them. *)

MaxCases == 2
MaxChannels == 2
MaxJobs == 2
MaxListLen == 3
SeriesLen == 3

PyStr(s) == [t |-> "str", s |-> s, i |-> 0, l |-> <<>>]
PyInt(i) == [t |-> "int", s |-> "", i |-> i, l |-> <<>>]
PyList(l) == [t |-> "list", s |-> "", i |-> 0, l |-> l]
PyTuple(l) == [t |-> "tuple", s |-> "", i |-> 0, l |-> l]
\* None, a float, a dict, a numpy integer: neither str nor int nor list nor tuple.
PyOther == [t |-> "other", s |-> "", i |-> 0, l |-> <<>>]

NameSet(names) == {names[k] : k \in 1..Len(names)}

\* The scalar specifications the selector is tried on.
SelStrings ==
    NameSet(feature_names) \cup NameSet(feature_names_short)
        \cup {"all", "Mean", "StandardDeviation", "not_a_feature", "mean", ""}
SelInts == (0 - 2)..25

\* The elements the list and tuple specifications are built from.
ListAtoms ==
    {PyStr("mode_5"), PyStr("DN_HistogramMode_10"), PyStr("Mean"),
     PyStr("StandardDeviation"), PyStr("all"), PyStr("not_a_feature"),
     PyInt(0 - 1), PyInt(0), PyInt(21), PyInt(22), PyInt(23), PyInt(24),
     PyOther, PyList(<<PyInt(0)>>)}

\* f is one of the specifications the selector is tried on: a string, an
\* integer, a value of another type, or a list or tuple of at most MaxListLen
\* elements.
IsSelSpec(f) ==
    \/ \E s \in SelStrings : f = PyStr(s)
    \/ \E i \in SelInts : f = PyInt(i)
    \/ f = PyOther
    \/ \E k \in 0..MaxListLen : \E l \in [1..k -> ListAtoms] :
          f \in {PyList(l), PyTuple(l)}

\* The specifications transform is run with.
TransformSpecs ==
    {PyStr("mode_5"), PyInt(23), PyStr("not_a_feature"), PyList(<<>>),
     PyList(<<PyInt(13), PyInt(3)>>),
     PyTuple(<<PyInt(7), PyStr("Mean"), PyInt(7)>>),
     PyList(<<PyInt(6), PyInt(17)>>)}

\* The data of a collection: every series distinct, every series the same
\* constant, cases of unequal length, or short series (case i of length i).
Variants == {"distinct", "constant", "unequal", "short"}

MakeSeries(v, i, c) ==
    IF v = "constant" THEN [k \in 1..SeriesLen |-> 5]
    ELSE IF v = "distinct" THEN [k \in 1..SeriesLen |-> 10 * i + 3 * c - k * k]
    ELSE IF v = "short" THEN [k \in 1..i |-> c + k * k]
    ELSE [k \in 1..(SeriesLen + i - 1) |-> i + c * k]

MakeX(v, nc, nch) == [i \in 1..nc |-> [c \in 1..nch |-> MakeSeries(v, i, c)]]

Collections ==
    {MakeX(v, nc, nch) : v \in Variants, nc \in 1..MaxCases, nch \in 1..MaxChannels}

---------------------------------------------------------------------------
(* Catch22._transform. *)

n_cases == Len(X)

\* A transformer that was given no _transform_features attribute.
NoMask == _transform_features = <<>>

\* A BoxCoxTransformer as its constructor leaves it, and no fit under way.
BoxCoxIdle ==
    /\ bounds = [t |-> "none", n |-> 0]
    /\ method = "mle"
    /\ sp = [t |-> "none", i |-> 0]
    /\ lambda_ = <<>>
    /\ data = [ndim |-> 1, kind |-> "positive"]
    /\ fit_pc = "idle"
    /\ fit_error = ""
    /\ work = <<>>

\* No numerical helper is being exercised on its own.
NumericIdle ==
    /\ kx = <<>>
    /\ kcall = "none"
    /\ kout = <<>>

InitCall ==
    /\ BoxCoxIdle
    /\ NumericIdle
    /\ pc = "call"
    /\ f_idx = <<>>
    /\ kernels = "aeon"
    /\ use_pycatch22_transform = FALSE
    /\ warned = FALSE
    /\ task = [i \in 1..Len(X) |-> PendingTask]
    /\ c22_list = [i \in 1..Len(X) |-> <<>>]
    /\ Xt = <<>>

InitFlags ==
    /\ NoMask
    /\ catch24 \in BOOLEAN
    /\ outlier_norm \in BOOLEAN
    /\ replace_nans \in BOOLEAN
    /\ use_pycatch22 \in BOOLEAN
    /\ pycatch22_installed \in BOOLEAN

\* Transform calls within the bounds.
InitBounded ==
    /\ features \in TransformSpecs
    /\ InitFlags
    /\ n_jobs \in 1..MaxJobs
    /\ X \in Collections
    /\ InitCall

\* The documented call: 4 single-channel cases of length 10, features="all".
InitExample ==
    /\ features = PyStr("all")
    /\ InitFlags
    /\ n_jobs = 1
    /\ X = [i \in 1..4 |-> <<[k \in 1..10 |-> i * k]>>]
    /\ InitCall

Init == InitBounded \/ InitExample

\* f_idx = _verify_features(self.features, self.catch24)
Verify ==
    /\ pc = "call"
    /\ LET r == _verify_features(features, catch24)
       IN  IF r.raised
           THEN /\ pc' = "raised"
                /\ UNCHANGED f_idx
           ELSE /\ pc' = "verified"
                /\ f_idx' = r.f_idx
    /\ UNCHANGED <<boxcox, numeric>>
    /\ UNCHANGED <<config, kernels, use_pycatch22_transform, warned, task,
                   c22_list, Xt>>

\* The registry, and the switch to pycatch22 or the warning.
SelectKernels ==
    /\ pc = "verified"
    /\ pc' = "dispatch"
    /\ IF use_pycatch22
       THEN IF pycatch22_installed
            THEN /\ kernels' = "pycatch22"
                 /\ use_pycatch22_transform' = TRUE
                 /\ UNCHANGED warned
            ELSE /\ warned' = TRUE
                 /\ UNCHANGED <<kernels, use_pycatch22_transform>>
       ELSE UNCHANGED <<kernels, use_pycatch22_transform, warned>>
    /\ UNCHANGED <<boxcox, numeric>>
    /\ UNCHANGED <<config, f_idx, task, c22_list, Xt>>

Running == {i \in 1..n_cases : task[i].st = "running"}

\* Parallel hands the calls to its workers in the order of range(n_cases),
\* at most n_jobs of them at a time.
MayStart(i) ==
    /\ task[i].st = "pending"
    /\ \A j \in 1..(i - 1) : task[j].st # "pending"
    /\ Cardinality(Running) < n_jobs

\* DispatchOpen with the Parallel call ahead of the selector.
DispatchOpenEarly(p) == p \in {"call", "dispatch"}

\* The Parallel call comes after the selector and the registry.
DispatchOpen(p) == p = "dispatch"

StartTask(i) ==
    /\ DispatchOpen(pc)
    /\ MayStart(i)
    /\ n_jobs = 1 => \A j \in 1..n_cases : task[j].st # "failed"
    /\ task' = [task EXCEPT ![i] = EnterCase(f_idx, X[i])]
    /\ UNCHANGED <<boxcox, numeric>>
    /\ UNCHANGED <<config, pc, f_idx, kernels, use_pycatch22_transform, warned,
                   c22_list, Xt>>

\* Locals with the shared quantities kept in one place for all the calls
\* (that of the running call of the lowest case).
LocalsShared(tk, i) ==
    LET r == {j \in DOMAIN tk : tk[j].st = "running"}
        o == CHOOSE j \in r : \A m \in r : j <= m
    IN  [tk[i] EXCEPT !.smin = tk[o].smin, !.smax = tk[o].smax,
                      !.smean = tk[o].smean, !.fft = tk[o].fft,
                      !.ac = tk[o].ac, !.acfz = tk[o].acfz,
                      !.outlier_series = tk[o].outlier_series]

\* The locals a call of case i works on.
Locals(tk, i) == tk[i]

\* StepOf with _transform_case for every case, whatever the registry.
StepOfNative(t, case) ==
    TransformCaseStep(t, case, f_idx, outlier_norm, kernels)

\* The loop body of the function Parallel was given for every case.
StepOf(t, case) ==
    IF use_pycatch22_transform
    THEN IF Skipped(t)
         THEN TransformCasePycatch22Skip(t, case, f_idx, outlier_norm)
         ELSE TransformCasePycatch22Step(t, case, f_idx, outlier_norm, kernels)
    ELSE IF Skipped(t)
         THEN TransformCaseSkip(t, case, f_idx)
         ELSE TransformCaseStep(t, case, f_idx, outlier_norm, kernels)

\* The way the kernel invocation the call of case i stands at ends; an
\* iteration that is skipped invokes none.
EndOf(t, case) ==
    IF Skipped(t) THEN "skipped"
    ELSE KernelEnd(t, case, f_idx, outlier_norm, kernels)

StepTask(i) ==
    /\ task[i].st = "running"
    /\ ~LoopsDone(task[i], X[i])
    /\ FALSE \in Raises(EndOf(Locals(task, i), X[i]))
    /\ task' = [task EXCEPT ![i] = StepOf(Locals(task, i), X[i])]
    /\ X' = [X EXCEPT ![i][task[i].ch + 1] =
                 IF Skipped(task[i]) THEN @
                 ELSE SeriesLeft(task[i], X[i], f_idx, outlier_norm,
                                 ~use_pycatch22_transform)]
    /\ UNCHANGED <<boxcox, numeric>>
    /\ UNCHANGED <<settings, pc, f_idx, kernels, use_pycatch22_transform, warned,
                   c22_list, Xt>>

\* Collect appending the results in the order the calls complete.
CollectByCompletion(list, i, c22) ==
    LET free == {j \in DOMAIN list : list[j] = <<>>}
        o == CHOOSE j \in free : \A m \in free : j <= m
    IN  [list EXCEPT ![o] = <<c22>>]

\* Parallel keeps each call's result at the position of its case.
Collect(list, i, c22) == [list EXCEPT ![i] = <<c22>>]

\* `return c22`
FinishTask(i) ==
    /\ task[i].st = "running"
    /\ LoopsDone(task[i], X[i])
    /\ task' = [task EXCEPT ![i].st = "done"]
    /\ c22_list' = Collect(c22_list, i, task[i].c22)
    /\ UNCHANGED <<boxcox, numeric>>
    /\ UNCHANGED <<config, pc, f_idx, kernels, use_pycatch22_transform, warned,
                   Xt>>

\* Fail with the exception caught and the loop body completed.
FailSwallowed(t, case) == StepOf(t, case)

\* An exception leaves the call: its vector is lost.
Fail(t, case) == [t EXCEPT !.st = "failed"]

\* A kernel raises inside the call of case i.
FailTask(i) ==
    /\ task[i].st = "running"
    /\ ~LoopsDone(task[i], X[i])
    /\ TRUE \in Raises(EndOf(Locals(task, i), X[i]))
    /\ task' = [task EXCEPT ![i] = Fail(Locals(task, i), X[i])]
    /\ UNCHANGED <<boxcox, numeric>>
    /\ UNCHANGED <<config, pc, f_idx, kernels, use_pycatch22_transform, warned,
                   c22_list, Xt>>

\* Parallel raises the exception of a failed call in _transform, which has
\* no handler: no matrix is assembled.
Reraise ==
    /\ pc = "dispatch"
    /\ \E i \in 1..n_cases : task[i].st = "failed"
    /\ pc' = "failed"
    /\ UNCHANGED <<boxcox, numeric>>
    /\ UNCHANGED <<config, f_idx, kernels, use_pycatch22_transform, warned, task,
                   c22_list, Xt>>

\* Assemble without the np.nan_to_num pass.
AssembleRaw(list, rn) == [i \in DOMAIN list |-> list[i][1]]

\* c22_array = np.array(c22_list), then the optional np.nan_to_num.
Assemble(list, rn) ==
    [i \in DOMAIN list |->
        IF rn THEN [k \in DOMAIN list[i][1] |-> nan_to_num(list[i][1][k])]
        ELSE list[i][1]]

ReturnMatrix ==
    /\ pc = "dispatch"
    /\ \A i \in 1..n_cases : task[i].st = "done"
    /\ Xt' = <<Assemble(c22_list, replace_nans)>>
    /\ pc' = "returned"
    /\ UNCHANGED <<boxcox, numeric>>
    /\ UNCHANGED <<config, f_idx, kernels, use_pycatch22_transform, warned, task,
                   c22_list>>

Next ==
    \/ Verify
    \/ SelectKernels
    \/ \E i \in 1..n_cases : StartTask(i)
    \/ \E i \in 1..n_cases : StepTask(i)
    \/ \E i \in 1..n_cases : FinishTask(i)
    \/ \E i \in 1..n_cases : FailTask(i)
    \/ Reraise
    \/ ReturnMatrix

Spec == Init /\ [][Next]_vars

\* Transform of one single-channel case, on every specification IsSelSpec
\* admits.
InitSel ==
    /\ IsSelSpec(features)
    /\ NoMask
    /\ catch24 \in BOOLEAN
    /\ outlier_norm = TRUE
    /\ replace_nans = FALSE
    /\ use_pycatch22 = FALSE
    /\ pycatch22_installed = FALSE
    /\ n_jobs = 1
    /\ X \in {MakeX("distinct", 1, 1), MakeX("short", 1, 1)}
    /\ InitCall

SpecSel == InitSel /\ [][Next]_vars

\* Transform of one single-channel case on the native path, on every pair of
\* feature indices.
InitArgs ==
    /\ \E a \in 0..23 : \E b \in 0..23 :
          features = PyList(<<PyInt(a), PyInt(b)>>)
    /\ NoMask
    /\ catch24 = TRUE
    /\ outlier_norm \in BOOLEAN
    /\ replace_nans = FALSE
    /\ use_pycatch22 = FALSE
    /\ pycatch22_installed = FALSE
    /\ n_jobs = 1
    /\ X \in {MakeX("distinct", 1, 1), MakeX("short", 1, 1)}
    /\ InitCall

SpecArgs == InitArgs /\ [][Next]_vars

\* The longest _transform_features attribute drawn.
MaxMaskLen == 4

\* The attribute absent, or a list of at most MaxMaskLen booleans.
Masks ==
    {<<>>} \cup UNION {{<<m>> : m \in [1..n -> BOOLEAN]} : n \in 0..MaxMaskLen}

\* Indices whose iterations read each of the shared quantities.
MaskIdx == {3, 13, 15, 22}

\* Transform of one case of one or two channels, on both paths, by a
\* transformer that was or was not given a _transform_features attribute.
InitMask ==
    /\ \E a \in MaskIdx : \E b \in MaskIdx :
          features = PyList(<<PyInt(a), PyInt(b)>>)
    /\ _transform_features \in Masks
    /\ catch24 = TRUE
    /\ outlier_norm \in BOOLEAN
    /\ replace_nans \in BOOLEAN
    /\ use_pycatch22 \in BOOLEAN
    /\ pycatch22_installed = TRUE
    /\ n_jobs = 1
    /\ X \in {MakeX("distinct", 1, 2), MakeX("short", 1, 1)}
    /\ InitCall

SpecMask == InitMask /\ [][Next]_vars

---------------------------------------------------------------------------
(* BoxCoxTransformer._fit (aeon/transformations/series/_boxcox.py).         *)
(*                                                                          *)
(* bounds is a record [t, n]: the Python type ("none", "tuple", "list",     *)
(* "other") and, for a tuple or list, its length.  sp is [t, i]: "none",    *)
(* "int" with its value, or "other".  The data is [ndim, kind]: the number  *)
(* of dimensions of X.squeeze() and whether the samples are positive and    *)
(* not all equal, constant, or not all positive.  lambda_ holds "prior"     *)
(* (the lambda of an earlier fit) or "fitted"; `work` lists the             *)
(* computations on the data in the order they were done.                    *)

MaxBoundsLen == 3
MaxSp == 3

NoBounds == [t |-> "none", n |-> 0]
TupleBounds(n) == [t |-> "tuple", n |-> n]

BoundsValues ==
    {NoBounds, [t |-> "list", n |-> 2], [t |-> "other", n |-> 0]}
        \cup {TupleBounds(n) : n \in 0..MaxBoundsLen}

Methods == {"mle", "pearsonr", "all", "guerrero"}

SpValues ==
    {[t |-> "none", i |-> 0], [t |-> "other", i |-> 0]}
        \cup {[t |-> "int", i |-> i] : i \in 0..MaxSp}

DataValues ==
    {[ndim |-> d, kind |-> k] :
        d \in {1, 2}, k \in {"positive", "constant", "nonpositive"}}

\* The outcome of _make_boxcox_optimizer: the ValueError, or the optimizer.
_make_boxcox_optimizer(b) ==
    IF b.t = "none" THEN [raised |-> FALSE, optimizer |-> "brent"]
    ELSE IF b.t # "tuple" \/ b.n # 2 THEN [raised |-> TRUE, optimizer |-> ""]
    ELSE [raised |-> FALSE, optimizer |-> "fminbound"]

\* `sp is None or not is_int(sp) or sp < 2`
BadSp(p) == p.t = "none" \/ p.t # "int" \/ p.i < 2

\* The checks of _boxcox, which _eval_pearsonr calls on the samples.
BoxcoxRejects(d) == d.ndim # 1 \/ d.kind # "positive"

InitBoxCox ==
    /\ bounds \in BoundsValues
    /\ method \in Methods \cup {"other"}
    /\ sp \in SpValues
    /\ lambda_ \in {<<>>, <<"prior">>}
    /\ data \in DataValues
    /\ fit_pc = "idle"
    /\ fit_error = ""
    /\ work = <<>>
    /\ NumericIdle
    /\ features = PyStr("all")
    /\ NoMask
    /\ catch24 = FALSE
    /\ outlier_norm = TRUE
    /\ replace_nans = FALSE
    /\ use_pycatch22 = FALSE
    /\ n_jobs = 1
    /\ pycatch22_installed = FALSE
    /\ X = <<>>
    /\ pc = "call"
    /\ f_idx = <<>>
    /\ kernels = "aeon"
    /\ use_pycatch22_transform = FALSE
    /\ warned = FALSE
    /\ task = <<>>
    /\ c22_list = <<>>
    /\ Xt = <<>>

\* A raise that first clears the attribute.
FitRaisesAndClears(e) ==
    /\ fit_pc' = "raised"
    /\ fit_error' = e
    /\ lambda_' = <<>>
    /\ UNCHANGED <<bounds, method, sp, data>>

\* `raise ValueError(...)` inside _fit: nothing is assigned.
FitRaises(e) ==
    /\ fit_pc' = "raised"
    /\ fit_error' = e
    /\ UNCHANGED <<bounds, method, sp, lambda_, data>>

\* X = X.squeeze(), and the branch on self.method.
FitEnter ==
    /\ fit_pc = "idle"
    /\ fit_pc' = IF method = "guerrero" THEN "guerrero" ELSE "normmax"
    /\ UNCHANGED <<bounds, method, sp, lambda_, data, fit_error, work, catch22, numeric>>

\* _guerrero: the check of sp.
GuerreroCheckSp ==
    /\ fit_pc = "guerrero"
    /\ IF BadSp(sp) THEN FitRaises("sp")
       ELSE /\ fit_pc' = "guerrero_sp"
            /\ UNCHANGED <<bounds, method, sp, lambda_, data, fit_error>>
    /\ UNCHANGED <<work, catch22, numeric>>

\* _guerrero: x = np.asarray(x) and the check of x.ndim.
GuerreroCheckDim ==
    /\ fit_pc = "guerrero_sp"
    /\ IF data.ndim # 1 THEN FitRaises("ndim")
       ELSE /\ fit_pc' = "guerrero_x"
            /\ UNCHANGED <<bounds, method, sp, lambda_, data, fit_error>>
    /\ UNCHANGED <<work, catch22, numeric>>

\* _guerrero: x_trimmed, x_mat, x_mean and x_std.
GuerreroStats ==
    /\ fit_pc = "guerrero_x"
    /\ fit_pc' = "guerrero_stats"
    /\ work' = work \o <<"trim", "reshape", "mean", "std">>
    /\ UNCHANGED <<bounds, method, sp, lambda_, data, fit_error, catch22, numeric>>

\* _guerrero: optimizer = _make_boxcox_optimizer(bounds)
GuerreroOptimizer ==
    /\ fit_pc = "guerrero_stats"
    /\ IF _make_boxcox_optimizer(bounds).raised THEN FitRaises("bounds")
       ELSE /\ fit_pc' = "guerrero_optimizer"
            /\ UNCHANGED <<bounds, method, sp, lambda_, data, fit_error>>
    /\ UNCHANGED <<work, catch22, numeric>>

\* _guerrero: return optimizer(_eval_guerrero, ...), assigned to self.lambda_.
GuerreroOptimize ==
    /\ fit_pc = "guerrero_optimizer"
    /\ fit_pc' = "done"
    /\ work' = Append(work, _make_boxcox_optimizer(bounds).optimizer)
    /\ lambda_' = <<"fitted">>
    /\ UNCHANGED <<bounds, method, sp, data, fit_error, catch22, numeric>>

\* _boxcox_normmax: optimizer = _make_boxcox_optimizer(bounds, brack)
NormmaxOptimizer ==
    /\ fit_pc = "normmax"
    /\ IF _make_boxcox_optimizer(bounds).raised THEN FitRaises("bounds")
       ELSE /\ fit_pc' = "normmax_optimizer"
            /\ UNCHANGED <<bounds, method, sp, lambda_, data, fit_error>>
    /\ UNCHANGED <<work, catch22, numeric>>

\* _boxcox_normmax: `if method not in methods.keys()`
NormmaxMethod ==
    /\ fit_pc = "normmax_optimizer"
    /\ IF method \notin {"pearsonr", "mle", "all"} THEN FitRaises("method")
       ELSE /\ fit_pc' = "normmax_method"
            /\ UNCHANGED <<bounds, method, sp, lambda_, data, fit_error>>
    /\ UNCHANGED <<work, catch22, numeric>>

\* _boxcox_normmax: return optimfunc(x), assigned to self.lambda_.  _pearsonr
\* (alone or first in _all) evaluates _boxcox on the samples, which raises on
\* data it rejects.
NormmaxOptimize ==
    /\ fit_pc = "normmax_method"
    /\ IF method \in {"pearsonr", "all"} /\ BoxcoxRejects(data)
       THEN /\ FitRaises("data")
            /\ work' = work \o <<"medians", "ppf">>
       ELSE /\ fit_pc' = "done"
            /\ work' = Append(work, _make_boxcox_optimizer(bounds).optimizer)
            /\ lambda_' = <<"fitted">>
            /\ UNCHANGED <<bounds, method, sp, data, fit_error>>
    /\ UNCHANGED <<catch22, numeric>>

NextBoxCox ==
    \/ FitEnter
    \/ GuerreroCheckSp
    \/ GuerreroCheckDim
    \/ GuerreroStats
    \/ GuerreroOptimizer
    \/ GuerreroOptimize
    \/ NormmaxOptimizer
    \/ NormmaxMethod
    \/ NormmaxOptimize

SpecBoxCox == InitBoxCox /\ [][NextBoxCox]_vars

---------------------------------------------------------------------------
(* The numerical helpers of _catch22.py, on the values they compute.        *)
(*                                                                          *)
(* The operators of this section carry the helper's name without its        *)
(* leading underscore.  Arrays are sequences of integers (index i of the    *)
(* code is position i + 1).  A quotient the code computes in floating       *)
(* point is kept exact, as a pair [num, den] or by comparing cross          *)
(* products; rounding is not modelled.                                      *)

MaxNumLen == 6
MaxNumVal == 1

NumVals == (0 - MaxNumVal)..MaxNumVal

\* int(np.log2(n)), n >= 1
RECURSIVE IntLog2(_)
IntLog2(n) == IF n < 2 THEN 0 ELSE 1 + IntLog2(n \div 2)

\* nFFT of _compute_autocorrelations for a series of n samples.  The
\* reference sizes the transform itself by this number.
NFFTTransformed(n) ==
    IF 2 ^ IntLog2(n) = n THEN n ELSE 2 ^ (IntLog2(n) + 1)

nFFT(n) ==
    IF 2 ^ IntLog2(n) = n THEN n * 2 ELSE (2 ^ (IntLog2(n) + 1)) * 2

\* F = np.zeros(nFFT * 2): the array _fft transforms (n = a.shape[0]).
fft_length(n) == nFFT(n) * 2

\* X[i] - mean, times len(X): n * X[i] - sum(X).
Centred(x) == [i \in 1..Len(x) |-> Len(x) * x[i] - SeqSum(x)]

\* The sum over i of y[i] * y[i + k], the lag-k product of an array padded
\* with zeros to L entries and read cyclically.
LagProduct(y, k, L) ==
    LET d == IF k <= L - k THEN k ELSE L - k
    IN  SeqSum([i \in 1..(IF d < Len(y) THEN Len(y) - d ELSE 0) |->
                   y[i] * y[i + d]])

\* _compute_autocorrelations(X): the transform of |fft(F)|^2 is the cyclic
\* lag product of F; `ac` holds the numerators of F / divisor and `divisor`
\* their common denominator.  A zero divisor gives np.zeros(nFFT * 2).
autocorrelations(x) ==
    LET L == fft_length(Len(x))
        y == Centred(x)
        divisor == LagProduct(y, 0, L)
    IN  IF divisor = 0
        THEN [ac |-> [k \in 1..L |-> 0], divisor |-> 1, guarded |-> TRUE]
        ELSE [ac |-> [k \in 1..L |-> LagProduct(y, k - 1, L)],
              divisor |-> divisor, guarded |-> FALSE]

InitNumeric ==
    /\ \E n \in 1..MaxNumLen : kx \in [1..n -> NumVals]
    /\ kcall = "none"
    /\ kout = <<>>
    /\ BoxCoxIdle
    /\ features = PyStr("all")
    /\ NoMask
    /\ catch24 = FALSE
    /\ outlier_norm = TRUE
    /\ replace_nans = FALSE
    /\ use_pycatch22 = FALSE
    /\ n_jobs = 1
    /\ pycatch22_installed = FALSE
    /\ X = <<>>
    /\ pc = "call"
    /\ f_idx = <<>>
    /\ kernels = "aeon"
    /\ use_pycatch22_transform = FALSE
    /\ warned = FALSE
    /\ task = <<>>
    /\ c22_list = <<>>
    /\ Xt = <<>>

\* What the application of a helper leaves alone.
held == <<kx, catch22, boxcox>>

ComputeAutocorrelations ==
    /\ kcall = "none"
    /\ kcall' = "_compute_autocorrelations"
    /\ kout' = [n |-> fft_length(Len(kx)), out |-> autocorrelations(kx)]
    /\ UNCHANGED held

\* _long_stretch(X_binary, val).  i, last_val and max_stretch are the
\* code's (0-based) variables.
long_stretch(X_binary, val) ==
    LET RECURSIVE Loop(_, _, _)
        Loop(i, last_val, max_stretch) ==
            IF i >= Len(X_binary) THEN max_stretch
            ELSE IF X_binary[i + 1] # val \/ i = Len(X_binary) - 1
                 THEN LET stretch == i - last_val
                      IN  Loop(i + 1, i,
                               IF stretch > max_stretch THEN stretch
                               ELSE max_stretch)
                 ELSE Loop(i + 1, last_val, max_stretch)
    IN  Loop(0, 0, 0)

\* diff_binary of _SB_BinaryStats_diff_longstretch0: len(X) - 1 entries.
diff_binary(x) ==
    [i \in 1..(Len(x) - 1) |-> IF x[i + 1] - x[i] >= 0 THEN 1 ELSE 0]

SB_BinaryStats_diff_longstretch0(x) == long_stretch(diff_binary(x), 0)

\* mean_binary of _SB_BinaryStats_mean_longstretch1: len(X) - 1 entries, the
\* last sample is not encoded.  smean.val is <<sum, n>>: X[i] - smean > 0
\* is n * X[i] > sum.
mean_binary(x, smean) ==
    [i \in 1..(Len(x) - 1) |->
        IF x[i] * smean.val[2] - smean.val[1] > 0 THEN 1 ELSE 0]

SB_BinaryStats_mean_longstretch1(x, smean) ==
    long_stretch(mean_binary(x, smean), 1)

\* int(q) for the float q = a / b, b > 0: truncation towards zero.
IntOfQuotient(a, b) == IF a >= 0 THEN a \div b ELSE 0 - ((0 - a) \div b)

\* The bin of _histogram_mode a sample falls in (0-based): (val - smin) /
\* bin_width is (val - smin) * num_bins / srange.
BinOf(val, num_bins, smin, smax) ==
    LET idx == IntOfQuotient((val - smin) * num_bins, smax - smin)
    IN  IF idx < 0 THEN 0
        ELSE IF idx >= num_bins THEN num_bins - 1
        ELSE idx

\* histogram[i], 0-based.
Histogram(x, num_bins, smin, smax) ==
    [b \in 0..(num_bins - 1) |->
        Cardinality({k \in 1..Len(x) : BinOf(x[k], num_bins, smin, smax) = b})]

\* v = (edges[i] + edges[i + 1]) / 2, times 2 * num_bins.
Centre(i, num_bins, smin, smax) ==
    2 * num_bins * smin + (2 * i + 1) * (smax - smin)

\* The centre of the first bin that holds the maximum count.
HistogramModeFirst(x, num_bins, smin, smax) ==
    LET h == Histogram(x, num_bins, smin, smax)
        top == CHOOSE i \in 0..(num_bins - 1) :
                   /\ \A j \in 0..(num_bins - 1) : h[j] <= h[i]
                   /\ \A j \in 0..(i - 1) : h[j] < h[i]
    IN  IF smax - smin = 0
        THEN [nan |-> TRUE, histogram |-> <<>>, num |-> 0, den |-> 1]
        ELSE [nan |-> FALSE, histogram |-> h,
              num |-> Centre(top, num_bins, smin, smax), den |-> 2 * num_bins]

\* _histogram_mode(X, num_bins, smin, smax): max_sum / num_maxs as the pair
\* [num, den] (both times 2 * num_bins), or NaN when bin_width is 0.
histogram_mode(x, num_bins, smin, smax) ==
    LET h == Histogram(x, num_bins, smin, smax)
        RECURSIVE Loop(_, _, _, _)
        Loop(i, max_count, num_maxs, max_sum) ==
            IF i >= num_bins
            THEN [nan |-> FALSE, histogram |-> h,
                  num |-> max_sum, den |-> 2 * num_bins * num_maxs]
            ELSE LET v == Centre(i, num_bins, smin, smax)
                 IN  IF h[i] > max_count THEN Loop(i + 1, h[i], 1, v)
                     ELSE IF h[i] = max_count
                          THEN Loop(i + 1, max_count, num_maxs + 1, max_sum + v)
                          ELSE Loop(i + 1, max_count, num_maxs, max_sum)
    IN  IF smax - smin = 0
        THEN [nan |-> TRUE, histogram |-> <<>>, num |-> 0, den |-> 1]
        ELSE Loop(0, 0, 1, 0)

\* 0.01, in the unit the autocorrelation values of the periodicity search
\* are given in (0.005).
th0_01 == 2

\* The indices i of range(1, acmax - 1) the scan of
\* _PD_PeriodicityWang_th0_01 records, in increasing order: troughs when
\* trough is TRUE, peaks otherwise.
Turning(acf, trough) ==
    LET acmax == Len(acf)
        RECURSIVE Scan(_)
        Scan(i) ==
            IF i >= acmax - 1 THEN <<>>
            ELSE LET slope_in == acf[i + 1] - acf[i]
                     slope_out == acf[i + 2] - acf[i + 1]
                     is_trough == slope_in < 0 /\ slope_out > 0
                     is_peak == ~is_trough /\ slope_in > 0 /\ slope_out < 0
                 IN  (IF (trough /\ is_trough) \/ (~trough /\ is_peak)
                      THEN <<i>> ELSE <<>>) \o Scan(i + 1)
    IN  Scan(1)

\* np.zeros(acmax) with the recorded indices written from slot 0 on.
Slots(found, acmax) ==
    [s \in 1..acmax |-> IF s <= Len(found) THEN found[s] ELSE 0]

\* The search treats every peak as preceded by its nearest trough or by
\* the first one (j starts at 0).
PeriodicitySearchFromFirst(acf) ==
    LET t == Turning(acf, TRUE)
        p == Turning(acf, FALSE)
        ok == {i \in 1..Len(p) :
                  /\ Len(t) > 0
                  /\ acf[p[i] + 1] >= 0
                  /\ \E j \in 1..Len(t) :
                        /\ t[j] < p[i] \/ j = 1
                        /\ \A k \in (j + 1)..Len(t) : t[k] > p[i]
                        /\ acf[p[i] + 1] - acf[t[j] + 1] >= th0_01}
    IN  [out |-> IF ok = {} THEN 0
                 ELSE p[CHOOSE i \in ok : \A k \in ok : i <= k],
         n_troughs |-> Len(t), n_peaks |-> Len(p), acmax |-> Len(acf),
         read |-> {}, used |-> {}, steps |-> 0]

\* The search of _PD_PeriodicityWang_th0_01 on acf: `out`, with the slots
\* of troughs the while condition read, the slots whose entry was used as
\* a trough (acf[troughs[j]]), and the number of times the while condition
\* was evaluated.
PD_PeriodicityWang_th0_01_search(acf) ==
    LET acmax == Len(acf)
        t == Turning(acf, TRUE)
        p == Turning(acf, FALSE)
        n_troughs == Len(t)
        n_peaks == Len(p)
        troughs == Slots(t, acmax)
        peaks == Slots(p, acmax)
        RECURSIVE While(_, _, _)
        While(i, j, tr) ==
            LET tr1 == [tr EXCEPT !.read = @ \cup {j + 1}, !.steps = @ + 1]
            IN  IF troughs[j + 2] < peaks[i + 1] /\ j + 1 < n_troughs
                THEN While(i, j + 1, tr1)
                ELSE [j |-> j, tr |-> tr1]
        RECURSIVE For(_, _)
        For(i, tr) ==
            IF i >= n_peaks THEN [out |-> 0, tr |-> tr]
            ELSE LET w == While(i, -1, tr)
                     j == w.j
                 IN  IF j = -1 THEN For(i + 1, w.tr)
                     ELSE LET tr2 == [w.tr EXCEPT !.used = @ \cup {j}]
                          IN  IF \/ acf[peaks[i + 1] + 1] - acf[troughs[j + 1] + 1]
                                       < th0_01
                                 \/ acf[peaks[i + 1] + 1] < 0
                              THEN For(i + 1, tr2)
                              ELSE [out |-> peaks[i + 1], tr |-> tr2]
        r == For(0, [read |-> {}, used |-> {}, steps |-> 0])
    IN  [out |-> r.out, n_troughs |-> n_troughs, n_peaks |-> n_peaks,
         acmax |-> acmax, read |-> r.tr.read, used |-> r.tr.used,
         steps |-> r.tr.steps]

\* A scan for the first zero crossing that starts at lag 0.
AcFirstZeroFromLag0(X_ac) ==
    IF \E i \in 0..(Len(X_ac) - 1) : X_ac[i + 1] <= 0
    THEN CHOOSE i \in 0..(Len(X_ac) - 1) :
             /\ X_ac[i + 1] <= 0
             /\ \A k \in 0..(i - 1) : X_ac[k + 1] > 0
    ELSE Len(X_ac)

\* _ac_first_zero(X_ac)
ac_first_zero(X_ac) ==
    LET RECURSIVE Loop(_)
        Loop(i) ==
            IF i >= Len(X_ac) THEN Len(X_ac)
            ELSE IF X_ac[i + 1] <= 0 THEN i
            ELSE Loop(i + 1)
    IN  Loop(1)

\* acfz as _transform_case computes it for a series:
\* _ac_first_zero(_compute_autocorrelations(series)).  The sign of
\* F / divisor is the sign of the numerator (the divisor is a sum of
\* squares).
acfz_of(series) == ac_first_zero(autocorrelations(series).ac)

\* _local_simple_mean(X, 1): res[i] = X[i + 1] - X[i]
local_simple_mean1(x) == [i \in 1..(Len(x) - 1) |-> x[i + 1] - x[i]]

\* _FC_LocalSimple_mean1_tauresrat(X, acfz): _ac_first_zero(ac) / acfz as
\* [num, den]; `raises` when the divisor is 0.
FC_LocalSimple_mean1_tauresrat(x, acfz) ==
    IF Len(x) < 2 THEN [raises |-> FALSE, num |-> 0, den |-> 1]
    ELSE [raises |-> acfz = 0,
          num |-> ac_first_zero(autocorrelations(local_simple_mean1(x)).ac),
          den |-> acfz]

\* ds of _SB_TransitionMatrix_3ac_sumdiagcov(X, acfz): the samples
\* X[i * acfz] for i below int((len(X) - 1) / acfz + 1); `raises` when the
\* divisor is 0.
SB_TransitionMatrix_3ac_ds(x, acfz) ==
    IF acfz = 0 THEN [raises |-> TRUE, ds |-> <<>>]
    ELSE [raises |-> FALSE,
          ds |-> [i \in 1..((Len(x) - 1) \div acfz + 1) |->
                     x[(i - 1) * acfz + 1]]]

IsBinary(x) == \A i \in 1..Len(x) : x[i] \in {0, 1}

LongStretch ==
    /\ kcall = "none"
    /\ IsBinary(kx)
    /\ kcall' = "_long_stretch"
    /\ \E val \in {0, 1} :
          kout' = [val |-> val, out |-> long_stretch(kx, val)]
    /\ UNCHANGED held

MeanLongstretch1 ==
    /\ kcall = "none"
    /\ kcall' = "_SB_BinaryStats_mean_longstretch1"
    /\ kout' = [bits |-> mean_binary(kx, mean(kx)),
                out |-> SB_BinaryStats_mean_longstretch1(kx, mean(kx))]
    /\ UNCHANGED held

DiffLongstretch0 ==
    /\ kcall = "none"
    /\ kcall' = "_SB_BinaryStats_diff_longstretch0"
    /\ kout' = [bits |-> diff_binary(kx),
                out |-> SB_BinaryStats_diff_longstretch0(kx)]
    /\ UNCHANGED held

\* _DN_HistogramMode_5 / _10 with the smin and smax _transform_case passes.
HistogramMode ==
    /\ kcall = "none"
    /\ kcall' = "_histogram_mode"
    /\ \E num_bins \in {5, 10} :
          kout' = [num_bins |-> num_bins,
                   out |-> histogram_mode(kx, num_bins, numba_min(kx).val[1],
                                          numba_max(kx).val[1])]
    /\ UNCHANGED held

PeriodicityWang ==
    /\ kcall = "none"
    /\ kcall' = "_PD_PeriodicityWang_th0_01"
    /\ kout' = PD_PeriodicityWang_th0_01_search(kx)
    /\ UNCHANGED held

AcFirstZero ==
    /\ kcall = "none"
    /\ kcall' = "_ac_first_zero"
    /\ kout' = ac_first_zero(kx)
    /\ UNCHANGED held

\* Features 8 and 12 with the acfz _transform_case passes.
Mean1Tauresrat ==
    /\ kcall = "none"
    /\ kcall' = "_FC_LocalSimple_mean1_tauresrat"
    /\ kout' = [acfz |-> acfz_of(kx),
                out |-> FC_LocalSimple_mean1_tauresrat(kx, acfz_of(kx))]
    /\ UNCHANGED held

TransitionMatrix ==
    /\ kcall = "none"
    /\ kcall' = "_SB_TransitionMatrix_3ac_sumdiagcov"
    /\ kout' = [acfz |-> acfz_of(kx),
                out |-> SB_TransitionMatrix_3ac_ds(kx, acfz_of(kx))]
    /\ UNCHANGED held

NextNumeric ==
    \/ ComputeAutocorrelations
    \/ LongStretch
    \/ MeanLongstretch1
    \/ DiffLongstretch0
    \/ HistogramMode
    \/ PeriodicityWang
    \/ AcFirstZero
    \/ Mean1Tauresrat
    \/ TransitionMatrix

SpecNumeric == InitNumeric /\ [][NextNumeric]_vars

---------------------------------------------------------------------------
(* Properties. *)

\* _transform_case (or _transform_case_pycatch22) run alone on one case, from
\* its entry to its return.
RECURSIVE RunCase(_, _)
RunCase(t, case) ==
    IF LoopsDone(t, case) THEN t.c22 ELSE RunCase(StepOf(t, case), case)

CaseVector(case) == RunCase(EnterCase(f_idx, case), case)

CleanIf(rn, row) == IF rn THEN [k \in DOMAIN row |-> nan_to_num(row[k])] ELSE row

n_channels == Len(X[1])

\* C1: the returned matrix has n_cases rows, each of
\* len(resolved indices) * n_channels entries, for every n_jobs and on either
\* path; 4 single-channel cases with features="all" and catch24 give (4, 24).
C1_Shape ==
    pc = "returned" =>
        /\ Len(Xt) = 1
        /\ Len(Xt[1]) = n_cases
        /\ \A i \in 1..n_cases :
              Len(Xt[1][i]) =
                  Len(_verify_features(features, catch24).f_idx) * n_channels
        /\ (features = PyStr("all") /\ catch24 /\ n_cases = 4 /\ n_channels = 1)
              => \A i \in 1..4 : Len(Xt[1][i]) = 24

C1_Witness ==
    /\ pc = "returned"
    /\ features = PyStr("all") /\ catch24
    /\ Len(Xt[1]) = 4
    /\ Len(Xt[1][1]) = 24

\* C2: whatever order the calls complete in, the result Parallel holds at
\* position i, and row i of the returned matrix, is the vector of case i.
C2_RowIsCase ==
    /\ \A i \in 1..n_cases :
          c22_list[i] # <<>> => c22_list[i][1] = CaseVector(X[i])
    /\ pc = "returned" =>
          \A i \in 1..n_cases : Xt[1][i] = CleanIf(replace_nans, CaseVector(X[i]))

\* Case 2 has returned while case 1 is still running, and their vectors differ.
C2_Witness ==
    /\ n_cases >= 2
    /\ task[1].st = "running"
    /\ task[2].st = "done"
    /\ c22_list[2] # <<>>
    /\ CaseVector(X[1]) # CaseVector(X[2])

\* The matrix a run with n_jobs = 1 returns: the cases one after the other.
RECURSIVE SequentialList(_)
SequentialList(m) ==
    IF m = 0 THEN <<>> ELSE Append(SequentialList(m - 1), <<CaseVector(X[m])>>)

SequentialMatrix == Assemble(SequentialList(n_cases), replace_nans)

\* A step of case i's call is the step the call takes on its own locals, and
\* leaves the locals and the result of every other case as they are.
StepsAreLocal ==
    \A i \in 1..n_cases :
        task'[i] # task[i] =>
            /\ \A j \in 1..n_cases \ {i} :
                  task'[j] = task[j] /\ c22_list'[j] = c22_list[j]
            /\ \/ task[i].st = "pending" /\ task'[i] = EnterCase(f_idx, X[i])
               \/ /\ task[i].st = "running" /\ ~LoopsDone(task[i], X[i])
                  /\ task'[i] = StepOf(task[i], X[i])
               \/ /\ task[i].st = "running" /\ LoopsDone(task[i], X[i])
                  /\ task'[i] = [task[i] EXCEPT !.st = "done"]
               \/ /\ task[i].st = "running" /\ ~LoopsDone(task[i], X[i])
                  /\ task'[i] = Fail(task[i], X[i])

\* C3: for every n_jobs the returned matrix is the one the sequential run
\* returns, and no call touches what another call reads or writes.
C3_JobsInvariant ==
    /\ [](pc = "returned" => Xt = <<SequentialMatrix>>)
    /\ [][StepsAreLocal]_vars

\* Two calls are both in the middle of their loops.
C3_Witness ==
    /\ n_jobs >= 2
    /\ Cardinality({i \in 1..n_cases :
           /\ task[i].st = "running"
           /\ task[i].f_count >= 0
           /\ ~LoopsDone(task[i], X[i])}) >= 2
    /\ X[1] # X[2]

\* C4: "all" resolves to [0..21] without catch24 and to [0..23] with it.
C4_All ==
    (pc # "call" /\ features = PyStr("all")) =>
        /\ pc # "raised"
        /\ f_idx = IF catch24
                   THEN <<0, 1, 2, 3, 4, 5, 6, 7, 8, 9, 10, 11, 12, 13, 14, 15,
                          16, 17, 18, 19, 20, 21, 22, 23>>
                   ELSE <<0, 1, 2, 3, 4, 5, 6, 7, 8, 9, 10, 11, 12, 13, 14, 15,
                          16, 17, 18, 19, 20, 21>>

C4_Witness ==
    /\ pc = "verified"
    /\ features = PyStr("all")
    /\ catch24
    /\ Len(f_idx) = 24 /\ f_idx[24] = 23

\* C5: the long name and the short name at position i of their tables, given
\* as a single string, resolve to [i], with and without catch24.
C5_NameToIndex ==
    \A k \in 1..22 :
        (/\ pc # "call"
         /\ features \in {PyStr(feature_names[k]), PyStr(feature_names_short[k])})
            => pc # "raised" /\ f_idx = <<k - 1>>

C5_Witness ==
    /\ pc = "verified"
    /\ features = PyStr("SP_Summaries_welch_rect_centroid")
    /\ f_idx = <<20>>

\* The four ways to name an extended feature.
ExtendedForms == {PyStr("Mean"), PyInt(22), PyStr("StandardDeviation"), PyInt(23)}

\* C6: a resolved list holds only 0..21 without catch24 and only 0..23 with
\* it; "Mean" and 22 give 22, "StandardDeviation" and 23 give 23, with catch24
\* only; without it each of them, alone or as an element, raises.
C6_ExtendedGated ==
    /\ \A k \in 1..Len(f_idx) : f_idx[k] \in 0..(IF catch24 THEN 23 ELSE 21)
    /\ (pc # "call" /\ catch24 /\ features \in {PyStr("Mean"), PyInt(22)})
          => pc # "raised" /\ f_idx = <<22>>
    /\ (pc # "call" /\ catch24
          /\ features \in {PyStr("StandardDeviation"), PyInt(23)})
          => pc # "raised" /\ f_idx = <<23>>
    /\ (/\ pc # "call" /\ ~catch24
        /\ \/ features \in ExtendedForms
           \/ \E k \in 1..Len(features.l) : features.l[k] \in ExtendedForms)
          => pc = "raised"

C6_Witness ==
    /\ pc = "raised"
    /\ ~catch24
    /\ features = PyList(<<PyInt(0), PyStr("Mean")>>)

\* The original C7: the resolved list of every scalar specification has one
\* element, and the k-th index of a list is what its k-th element resolves to
\* alone.
C7_Original ==
    pc \notin {"call", "raised"} =>
        IF features.t \in {"list", "tuple"}
        THEN /\ Len(f_idx) = Len(features.l)
             /\ \A k \in 1..Len(f_idx) :
                   _verify_features(features.l[k], catch24) = Return(<<f_idx[k]>>)
        ELSE Len(f_idx) = 1

\* C7, amended: as the original, for every valid specification other than
\* the string "all" (which resolves to 22 or 24 indices).
C7_LengthAndOrder ==
    (pc \notin {"call", "raised"} /\ features # PyStr("all")) =>
        IF features.t \in {"list", "tuple"}
        THEN /\ Len(f_idx) = Len(features.l)
             /\ \A k \in 1..Len(f_idx) :
                   _verify_features(features.l[k], catch24) = Return(<<f_idx[k]>>)
        ELSE Len(f_idx) = 1

\* A list with a repeated element, out of ascending order.
C7_Witness ==
    /\ pc = "verified"
    /\ features = PyList(<<PyInt(21), PyStr("mode_5"), PyInt(21)>>)
    /\ f_idx = <<21, 0, 21>>

\* The valid forms of a specification, as section 4.1 of the spec lists them.
ValidIdentifier(a, c24) ==
    \/ a.t = "str" /\ (InNames(a.s, feature_names) \/ InNames(a.s, feature_names_short))
    \/ a.t = "str" /\ c24 /\ a.s \in {"Mean", "StandardDeviation"}
    \/ a.t = "int" /\ a.i \in 0..21
    \/ a.t = "int" /\ c24 /\ a.i \in {22, 23}

ValidSpec(f, c24) ==
    \/ f = PyStr("all")
    \/ ValidIdentifier(f, c24)
    \/ /\ f.t \in {"list", "tuple"}
       /\ Len(f.l) > 0
       /\ \A k \in 1..Len(f.l) : ValidIdentifier(f.l[k], c24)

\* C8: a specification that is not of a valid form makes the selector raise,
\* no index list is kept, not even a partial one, and no matrix is returned.
C8_InvalidRaises ==
    (pc # "call" /\ ~ValidSpec(features, catch24)) =>
        /\ pc = "raised"
        /\ f_idx = <<>>
        /\ Xt = <<>>

\* An invalid element after a valid one.
C8_Witness ==
    /\ pc = "raised"
    /\ features = PyList(<<PyInt(0), PyStr("not_a_feature")>>)
    /\ f_idx = <<>>

\* C9: until the selector has returned, and for good when it raised, no call
\* has been dispatched, no kernel invoked and no shared quantity computed.
C9_FailFast ==
    pc \in {"call", "raised"} =>
        /\ \A i \in 1..n_cases : task[i] = PendingTask
        /\ \A i \in 1..n_cases : c22_list[i] = <<>>
        /\ Xt = <<>>

C9_Witness ==
    /\ pc = "raised"
    /\ n_cases >= 2
    /\ n_jobs >= 2
    /\ features = PyTuple(<<PyInt(7), PyStr("Mean"), PyInt(7)>>)
    /\ \A i \in 1..n_cases : task[i].ncalls = 0 /\ task[i].nshared = 0

\* C10: the entry at column c * len(f_idx) + n of row i is feature f_idx[n]
\* computed on channel c of case i, and f_idx stays the list the selector
\* resolved for the call.
C10_Layout ==
    /\ pc \notin {"call", "raised"} =>
          f_idx = _verify_features(features, catch24).f_idx
    /\ pc = "returned" =>
          \A i \in 1..n_cases : \A c \in 0..(n_channels - 1) :
              \A n \in 0..(Len(f_idx) - 1) :
                  LET e == Xt[1][i][c * Len(f_idx) + n + 1]
                  IN  /\ e.kind # "zero"
                      /\ e.k = f_idx[n + 1]
                      /\ \A a \in 1..Len(e.args) : e.args[a].of = X[i][c + 1]

\* Two channels, three selected features with a repetition.
C10_Witness ==
    /\ pc = "returned"
    /\ n_channels = 2
    /\ f_idx = <<7, 22, 7>>
    /\ Xt[1][1][5].k = 22
    /\ Xt[1][1][5].args[1].of = X[1][2]

\* Whether the call of a case, run alone from t on, comes to a kernel
\* invocation that raises.
RECURSIVE RunFails(_, _)
RunFails(t, case) ==
    IF LoopsDone(t, case) THEN FALSE
    ELSE IF EndOf(t, case) = "raise" THEN TRUE
    ELSE RunFails(StepOf(t, case), case)

CaseFails(case) == RunFails(EnterCase(f_idx, case), case)

\* C11: once the call of a case has failed no matrix is ever returned, in
\* whatever order the other calls complete; a matrix is returned only when
\* no case's call comes to a raising kernel; and when transform raises a
\* call's error a call has failed and there is no matrix.
C11_FailureAborts ==
    /\ (\E i \in 1..n_cases : task[i].st = "failed")
          => pc # "returned" /\ Xt = <<>>
    /\ pc = "returned" => \A i \in 1..n_cases : ~CaseFails(X[i])
    /\ pc = "failed"
          => Xt = <<>> /\ \E i \in 1..n_cases : task[i].st = "failed"

\* Case 1 failed, case 2 ran to its end beside it, and transform raised.
C11_Witness ==
    /\ pc = "failed"
    /\ n_jobs >= 2
    /\ n_cases >= 2
    /\ task[1].st = "failed"
    /\ task[2].st = "done"
    /\ c22_list[2] # <<>>
    /\ Xt = <<>>

\* C12: with replace_nans every entry of the returned matrix is finite: an
\* entry that was NaN (or infinite) is 0, a finite entry is the entry the
\* call computed; without replace_nans the matrix holds the calls' entries as
\* they are.  The replacement is one pass over the assembled matrix: no
\* entry of a call's vector is replaced before.
C12_Finite ==
    /\ \A i \in 1..n_cases :
          /\ \A k \in DOMAIN task[i].c22 : ~task[i].c22[k].cleaned
          /\ c22_list[i] # <<>>
                => \A k \in DOMAIN c22_list[i][1] : ~c22_list[i][1][k].cleaned
    /\ pc = "returned" =>
          \A i \in 1..n_cases : \A k \in DOMAIN Xt[1][i] :
              LET e == Xt[1][i][k]
                  raw == c22_list[i][1][k]
              IN  IF replace_nans
                  THEN /\ ValueClass(e) \in {"zero", "finite"}
                       /\ RawClass(raw) = "nan" => ValueClass(e) = "zero"
                       /\ RawClass(raw) \in {"zero", "finite"}
                             => /\ ValueClass(e) = RawClass(raw)
                                /\ [e EXCEPT !.cleaned = FALSE] = raw
                  ELSE e = raw

\* A returned matrix in which a NaN was replaced next to a finite entry.
C12_Witness ==
    /\ pc = "returned"
    /\ replace_nans
    /\ \E k \in DOMAIN Xt[1][1] :
          RawClass(c22_list[1][1][k]) = "nan" /\ ValueClass(Xt[1][1][k]) = "zero"
    /\ \E k \in DOMAIN Xt[1][1] :
          RawClass(c22_list[1][1][k]) = "finite" /\ Xt[1][1][k].kind = "call"

\* min == max
IsConstant(series) == SeqMin(series) = SeqMax(series)

\* C13: on every series of the collection whose minimum equals its maximum
\* the 5-bin and the 10-bin histogram-mode kernels end with NaN; transform
\* with features = "mode_5" (native registry) returns for such a series
\* exactly 0 with replace_nans and NaN without it.
C13_ConstantMode ==
    /\ \A i \in 1..n_cases : \A c \in 1..Len(X[i]) :
          LET s == X[i][c]
          IN  IsConstant(s) =>
                /\ _DN_HistogramMode_5(SeriesArg(s), numba_min(s), numba_max(s))
                      = "nan"
                /\ _DN_HistogramMode_10(SeriesArg(s), numba_min(s), numba_max(s))
                      = "nan"
    /\ (pc = "returned" /\ features = PyStr("mode_5") /\ kernels = "aeon") =>
          \A i \in 1..n_cases : \A c \in 1..Len(X[i]) :
              IsConstant(X[i][c]) =>
                  /\ Xt[1][i][c].k = 0
                  /\ Xt[1][i][c].args[1].of = X[i][c]
                  /\ ValueClass(Xt[1][i][c])
                        = IF replace_nans THEN "zero" ELSE "nan"

\* The series [5, 5, 5] under "mode_5" with replace_nans: exactly 0.
C13_Witness ==
    /\ pc = "returned"
    /\ features = PyStr("mode_5")
    /\ kernels = "aeon"
    /\ replace_nans
    /\ X[1][1] = [k \in 1..SeriesLen |-> 5]
    /\ RawClass(c22_list[1][1][1]) = "nan"
    /\ ValueClass(Xt[1][1][1]) = "zero"

\* C14: on the native path no shared quantity of a series is computed more
\* than once while the call works on that series, by the driver or inside a
\* helper.
C14_AtMostOnce ==
    \A i \in 1..n_cases :
        ~use_pycatch22_transform =>
            \A q \in SharedNames : task[i].times[q] <= 1

\* The shared locals of a call.
SharedOf(t) ==
    {t.smin, t.smax, t.smean, t.fft, t.ac, t.acfz, t.outlier_series}

\* The channel (1-based) whose iteration the call of a case ran last.
LastChannel(t) == IF t.n = 0 THEN t.ch ELSE t.ch + 1

\* C15: a call starts with every shared quantity unset; every shared
\* quantity a call holds was computed from the series of the channel it is
\* working on, and every argument of every kernel invocation from the series
\* of the entry's own channel and case.
C15_SharedLocal ==
    \A i \in 1..n_cases :
        LET t == task[i]
        IN  /\ t.f_count = -1 => \A q \in SharedOf(t) : q = <<>>
            /\ t.f_count >= 0 =>
                  \A q \in SharedOf(t) :
                      q # <<>> => q[1].of = X[i][LastChannel(t)]
            /\ \A c \in 1..Len(X[i]) : \A n \in 1..Len(f_idx) :
                  LET k == (c - 1) * Len(f_idx) + n
                  IN  k \in DOMAIN t.c22 =>
                        \A a \in DOMAIN t.c22[k].args :
                            t.c22[k].args[a].of = X[i][c]

\* The second channel of a case has its own minimum, not the first one's.
C15_Witness ==
    /\ Len(X[1]) = 2
    /\ X[1][1] # X[1][2]
    /\ f_idx = <<0>>
    /\ task[1].ch = 2
    /\ task[1].smin # <<>>
    /\ task[1].smin[1].of = X[1][2]
    /\ task[1].c22[2].args[2] = numba_min(X[1][2])
    /\ numba_min(X[1][1]) # numba_min(X[1][2])

\* The entries the calls have written so far, of every case.
EntriesWritten ==
    UNION {{task[i].c22[k] : k \in DOMAIN task[i].c22} : i \in 1..n_cases}
        \ {Zero}

\* An entry as _transform_case writes it with the native registry.
NativeEntry(e) ==
    \/ e.kind = "stored" /\ e.k = 22
    \/ e.kind = "call" /\ e.k = 23 /\ e.reg = "np.std"
    \/ e.kind = "call" /\ e.k \in 0..21 /\ e.reg = "aeon"

\* An entry as _transform_case_pycatch22 writes it with the pycatch22 registry.
ExternalEntry(e) ==
    \/ e.kind = "call" /\ e.k = 22 /\ e.reg = "np.mean"
    \/ e.kind = "call" /\ e.k = 23 /\ e.reg = "np.std"
    \/ e.kind = "call" /\ e.k \in 0..21 /\ e.reg = "pycatch22"
          /\ e.args = <<SeriesArg(e.args[1].of)>>

\* C16: with use_pycatch22 and pycatch22 missing transform warns, keeps the
\* native registry and the native per-case function for every case, and
\* raises only what the selector or a kernel raises; with pycatch22 installed
\* it takes the pycatch22 registry and per-case function for every case,
\* without a warning; without use_pycatch22 it never warns.
C16_Fallback ==
    /\ pc = "raised" => _verify_features(features, catch24).raised
    /\ pc = "failed" => \E i \in 1..n_cases : task[i].st = "failed"
    /\ pc \notin {"call", "raised", "verified"} =>
          IF use_pycatch22 /\ pycatch22_installed
          THEN /\ ~warned
               /\ kernels = "pycatch22"
               /\ use_pycatch22_transform
               /\ \A e \in EntriesWritten : ExternalEntry(e)
          ELSE /\ warned = use_pycatch22
               /\ kernels = "aeon"
               /\ ~use_pycatch22_transform
               /\ \A e \in EntriesWritten : NativeEntry(e)
    /\ (pc = "dispatch" /\ \A i \in 1..n_cases : task[i].st = "done")
          => ENABLED ReturnMatrix

\* pycatch22 is asked for and missing: warned, and the matrix of two cases
\* is returned with native entries.
C16_Witness ==
    /\ pc = "returned"
    /\ use_pycatch22 /\ ~pycatch22_installed
    /\ warned
    /\ n_cases = 2
    /\ f_idx = <<7, 22, 7>>
    /\ \A i \in 1..2 : \A k \in DOMAIN Xt[1][i] :
          NativeEntry([Xt[1][i][k] EXCEPT !.cleaned = FALSE])

\* _transform_case run alone on one case with the native registry.
RECURSIVE RunCaseNative(_, _)
RunCaseNative(t, case) ==
    IF LoopsDone(t, case) THEN t.c22
    ELSE RunCaseNative(TransformCaseStep(t, case, f_idx, outlier_norm, "aeon"),
                       case)

NativeVector(case) == RunCaseNative(EnterCase(f_idx, case), case)

\* The series an entry was computed from: the normalised series or the raw one.
InputOf(e) ==
    IF \E a \in DOMAIN e.args : e.args[a].name = "outlier_series"
    THEN "normalised" ELSE "raw"

\* C17: every base feature of a vector computed on the pycatch22 path has
\* the input the native path gives it: the normalised series for indices 13
\* and 14 under outlier_norm, the raw series otherwise.
C17_SameInput ==
    \A i \in 1..n_cases :
        (use_pycatch22_transform /\ c22_list[i] # <<>>) =>
            \A k \in DOMAIN c22_list[i][1] :
                LET e == c22_list[i][1][k]
                    native == NativeVector(X[i])[k]
                IN  e.k \in 0..21 =>
                      /\ native.k = e.k
                      /\ InputOf(native) =
                            IF outlier_norm /\ e.k \in {13, 14}
                            THEN "normalised" ELSE "raw"
                      /\ InputOf(e) = InputOf(native)

\* C18: no kernel invocation of the native registry ends with an exception,
\* whatever the length of the series: no call fails, and no call stands at
\* an invocation that raises.
C18_NeverRaises ==
    \A i \in 1..n_cases :
        /\ task[i].st # "failed"
        /\ (task[i].st = "running" /\ ~LoopsDone(task[i], X[i]))
              => EndOf(task[i], X[i]) # "raise"

\* C19: no step of transform, on either path and with any selection,
\* changes a sample of the collection it was given.
C19_InputUnchanged == [][X' = X]_vars

\* The motif kernel, which sorts, has run on a series that is not in
\* ascending order, and the series is as it was.
C19_Witness ==
    /\ f_idx = <<6, 17>>
    /\ ~use_pycatch22_transform
    /\ task[1].st = "done"
    /\ task[1].c22[2].k = 17
    /\ X[1][1] # Ascending(X[1][1])
    /\ X[1][1] = MakeSeries("distinct", 1, 1)

\* C20: a fit with bounds that are neither None nor a tuple of length 2
\* never completes, whatever the method, and has done no computation on the
\* data when it raises.
C20_BoundsRejectedFirst ==
    (method \in Methods /\ _make_boxcox_optimizer(bounds).raised) =>
        /\ fit_pc # "done"
        /\ work = <<>>

\* The smallest power of two that is at least n, and the smallest one that
\* is greater than n.
PowerOfTwoAtLeast(n) == Pow2(CeilLog2(n))
PowerOfTwoAbove(n) == Pow2(CeilLog2(n + 1))

\* C22, as stated: the FFT-based autocorrelation of a series of n >= 1
\* samples transforms an array whose length is the smallest power of two
\* strictly greater than n.
C22_PadsToNextPower ==
    kcall = "_compute_autocorrelations" =>
        kout.n = PowerOfTwoAbove(Len(kx))

\* C22, amended: the transformed array has four times the smallest power of
\* two at or above n entries (4n when n is a power of two), which is a
\* power of two and at least 2n; the mean-removed series fills its first n
\* entries, the rest is zero, and the returned vector has that length.
C22_PadsToFourTimesPower ==
    kcall = "_compute_autocorrelations" =>
        /\ kout.n = 4 * PowerOfTwoAtLeast(Len(kx))
        /\ kout.n = Pow2(CeilLog2(kout.n))
        /\ kout.n >= 2 * Len(kx)
        /\ Len(kout.out.ac) = kout.n

\* A series of 3 samples (not a power of two) was transformed on 16 points.
C22_Witness ==
    /\ kcall = "_compute_autocorrelations"
    /\ Len(kx) = 3
    /\ kout.n = 16
    /\ ~kout.out.guarded

\* The length of the longest run of consecutive entries of b equal to val
\* (0 when val does not occur).
LongestRun(b, val) ==
    LET runs == {<<i, j>> \in (1..Len(b)) \X (1..Len(b)) :
                    i <= j /\ \A k \in i..j : b[k] = val}
    IN  IF runs = {} THEN 0
        ELSE LET r == CHOOSE r \in runs :
                          \A q \in runs : q[2] - q[1] <= r[2] - r[1]
             IN  r[2] - r[1] + 1

\* The above/below-mean encoding of a series: 1 where the sample is above
\* the mean.
AboveMean(x) ==
    [i \in 1..Len(x) |-> IF x[i] * Len(x) > SeqSum(x) THEN 1 ELSE 0]

\* C23: the binary-stretch helper returns the length of the longest run of
\* the target bit in a 0/1 sequence (0 when the bit does not occur); the
\* above-mean feature is that length for bit 1 in the above/below-mean
\* encoding of the series, the decreasing feature that length for bit 0 in
\* the increasing/decreasing encoding of the successive differences.
C23_LongestRun ==
    /\ kcall = "_long_stretch" => kout.out = LongestRun(kx, kout.val)
    /\ kcall = "_SB_BinaryStats_mean_longstretch1" =>
           kout.out = LongestRun(AboveMean(kx), 1)
    /\ kcall = "_SB_BinaryStats_diff_longstretch0" =>
           kout.out = LongestRun(diff_binary(kx), 0)

\* Sample val lies in bin b (0-based) of num_bins equal-width bins over
\* [smin, smax]: the bin's lower edge is at most val and val is below its
\* upper edge, the maximum belonging to the last bin.  Positions are taken
\* times num_bins.
InBin(val, b, num_bins, smin, smax) ==
    LET lower == num_bins * smin + b * (smax - smin)
        upper == num_bins * smin + (b + 1) * (smax - smin)
    IN  \/ lower <= num_bins * val /\ num_bins * val < upper
        \/ b = num_bins - 1 /\ val = smax

\* Twice the sum of the centres (times num_bins) of the bins in T.
CentreSum(T, num_bins, smin, smax) ==
    SeqSum([b \in 1..num_bins |->
               IF (b - 1) \in T
               THEN 2 * num_bins * smin + (2 * b - 1) * (smax - smin)
               ELSE 0])

\* C24: for a non-empty series with min < max and N in {5, 10}, the
\* histogram-mode kernel counts every sample in exactly one of N equal-width
\* bins over [min, max] (the maximum in the last one) and returns the mean
\* of the centres of exactly the bins whose count is the maximum count.
C24_MeanOfTiedCentres ==
    (kcall = "_histogram_mode" /\ SeqMin(kx) < SeqMax(kx)) =>
        LET N == kout.num_bins
            smin == SeqMin(kx)
            smax == SeqMax(kx)
            h == kout.out.histogram
            T == {b \in 0..(N - 1) : \A c \in 0..(N - 1) : h[c] <= h[b]}
        IN  /\ ~kout.out.nan
            /\ N \in {5, 10}
            /\ \A k \in 1..Len(kx) :
                  Cardinality({b \in 0..(N - 1) :
                                  InBin(kx[k], b, N, smin, smax)}) = 1
            /\ \A b \in 0..(N - 1) :
                  h[b] = Cardinality({k \in 1..Len(kx) :
                                         InBin(kx[k], b, N, smin, smax)})
            /\ kout.out.num * 2 * N * Cardinality(T)
                   = kout.out.den * CentreSum(T, N, smin, smax)

\* Two bins tie for the maximum count, a third bin holds fewer samples and
\* another is empty.
C24_Witness ==
    /\ kcall = "_histogram_mode"
    /\ ~kout.out.nan
    /\ LET h == kout.out.histogram
           N == kout.num_bins
           T == {b \in 0..(N - 1) : \A c \in 0..(N - 1) : h[c] <= h[b]}
       IN  /\ Cardinality(T) = 2
           /\ \E b \in 0..(N - 1) : h[b] > 0 /\ b \notin T
           /\ \E b \in 0..(N - 1) : h[b] = 0 /\ \E c \in T : b < c

\* The peaks and the troughs of acf (0-based indices, ends excluded), and
\* the peaks that qualify: a trough precedes the peak, the peak is at least
\* th0_01 above the nearest preceding trough, and it is not negative.
PeaksOf(acf) ==
    {i \in 1..(Len(acf) - 2) :
        acf[i + 1] - acf[i] > 0 /\ acf[i + 2] - acf[i + 1] < 0}

TroughsOf(acf) ==
    {i \in 1..(Len(acf) - 2) :
        acf[i + 1] - acf[i] < 0 /\ acf[i + 2] - acf[i + 1] > 0}

QualifyingPeaks(acf) ==
    {p \in PeaksOf(acf) :
        \E t \in TroughsOf(acf) :
            /\ t < p
            /\ \A u \in TroughsOf(acf) : u < p => u <= t
            /\ acf[p + 1] - acf[t + 1] >= th0_01
            /\ acf[p + 1] >= 0}

\* C25: the periodicity kernel returns the position of the first peak of the
\* autocorrelation that has a preceding trough, exceeds the nearest
\* preceding trough by at least 0.01 and is non-negative, and 0 when there
\* is none; its trough search ends for every peak, reads only slots of the
\* trough array, and uses as a trough only a slot below the number of
\* troughs found.
C25_FirstQualifyingPeak ==
    kcall = "_PD_PeriodicityWang_th0_01" =>
        LET Q == QualifyingPeaks(kx)
        IN  /\ kout.out = IF Q = {} THEN 0
                          ELSE CHOOSE p \in Q : \A q \in Q : p <= q
            /\ kout.n_peaks = Cardinality(PeaksOf(kx))
            /\ kout.n_troughs = Cardinality(TroughsOf(kx))
            /\ \A s \in kout.used : 0 <= s /\ s < kout.n_troughs
            /\ \A s \in kout.read : 0 <= s /\ s < kout.acmax
            /\ kout.steps <= kout.n_peaks * (kout.n_troughs + 1)

\* The first peak fails against the trough before it, the second peak
\* qualifies against its nearest trough and would not against the first
\* one, and the search read the slot after the last trough found.
C25_Witness ==
    /\ kcall = "_PD_PeriodicityWang_th0_01"
    /\ kx = <<1, 0, 1, -1, 1, 0>>
    /\ kout.out = 4
    /\ kout.n_troughs = 2
    /\ kout.n_troughs \in kout.read
    /\ kout.used = {0, 1}

IsConstantSeries(x) == \A i \in 1..Len(x) : x[i] = x[1]

\* C26: the first-zero-crossing lag of a vector of at least 2 entries is the
\* smallest index i >= 1 whose value is <= 0, or the vector's length when
\* there is none, so it lies in 1..len and is never 0; the lag the driver
\* computes for a series is therefore at least 1 (1 for a constant series,
\* whose autocorrelation is the all-zero vector of the lag-0 guard), and
\* the kernel that divides by it and the kernel that strides by it never
\* divide by zero.
C26_LagNeverZero ==
    /\ (kcall = "_ac_first_zero" /\ Len(kx) >= 2) =>
           LET crossing == {i \in 1..(Len(kx) - 1) : kx[i + 1] <= 0}
           IN  /\ kout \in 1..Len(kx)
               /\ kout = IF crossing = {} THEN Len(kx)
                         ELSE CHOOSE i \in crossing : \A k \in crossing : i <= k
    /\ kcall \in {"_FC_LocalSimple_mean1_tauresrat",
                  "_SB_TransitionMatrix_3ac_sumdiagcov"} =>
           /\ kout.acfz >= 1
           /\ IsConstantSeries(kx) => kout.acfz = 1
           /\ ~kout.out.raises

\* The forecast ratio of a constant series of 3 samples: the guard returned
\* the all-zero vector, the lag is 1 and the division went through.
C26_Witness ==
    /\ kcall = "_FC_LocalSimple_mean1_tauresrat"
    /\ Len(kx) = 3
    /\ IsConstantSeries(kx)
    /\ autocorrelations(kx).guarded
    /\ kout.acfz = 1
    /\ kout.out.den = 1
    /\ ~kout.out.raises

\* The parameters the kernel at position k of the native registry declares.
\* The one parameter of kernel 11 is named X_ac and is the array whose
\* lagged correlations the kernel takes itself.
Signature(k) ==
    IF k \in {0, 1, 4} THEN <<"X", "smin", "smax">>
    ELSE IF k \in {2, 3} THEN <<"X_ac", "size">>
    ELSE IF k = 7 THEN <<"X", "smean">>
    ELSE IF k \in {8, 10, 12} THEN <<"X", "acfz">>
    ELSE IF k \in {15, 20} THEN <<"X", "X_fft">>
    ELSE IF k = 11 THEN <<"X_ac">>
    ELSE <<"X">>

\* The entry at channel c (1-based) and position n (1-based) of f_idx of
\* the vector of task t, and whether the loops have written it.
EntryIndex(c, n) == (c - 1) * Len(f_idx) + n

HasWritten(t, c, n) ==
    /\ t.st # "pending"
    /\ EntryIndex(c, n) - 1 < t.ch * Len(f_idx) + t.n

\* The arguments of kernel f on a series, the outlier features taking
\* `normalised` (TRUE: the normalised series, FALSE: the series itself).
ArgsFor(f, s, normalised) ==
    IF f \in {0, 1, 4} THEN <<SeriesArg(s), numba_min(s), numba_max(s)>>
    ELSE IF f = 7 THEN <<SeriesArg(s), mean(s)>>
    ELSE IF f \in {2, 3} THEN <<_compute_autocorrelations(s), LenArg(s)>>
    ELSE IF f \in {8, 10, 12}
    THEN <<SeriesArg(s), _ac_first_zero(_compute_autocorrelations(s))>>
    ELSE IF f \in {15, 20} THEN <<SeriesArg(s), np_fft(s, mean(s))>>
    ELSE IF f \in {13, 14} /\ normalised
    THEN <<z_normalise_series_with_mean(s, mean(s))>>
    ELSE <<SeriesArg(s)>>

\* Every entry written on the native path is the registry kernel of its
\* index applied to as many arguments as the kernel declares, namely
\* ArgsFor computed from the entry's own series; 22 and 23 call no registry
\* kernel.
InvokedWith(normalised) ==
    ~use_pycatch22_transform =>
        \A i \in 1..n_cases : \A c \in 1..Len(X[i]) : \A n \in 1..Len(f_idx) :
            HasWritten(task[i], c, n) =>
                LET e == task[i].c22[EntryIndex(c, n)]
                    f == f_idx[n]
                IN  IF f \in {22, 23} THEN e.reg # "aeon"
                    ELSE /\ e.kind = "call"
                         /\ e.reg = "aeon"
                         /\ e.k = f
                         /\ Len(e.args) = Len(Signature(f))
                         /\ e.args = ArgsFor(f, X[i][c], normalised)

\* C27, as stated: on the native path every kernel is invoked with exactly
\* the arguments it declares, whatever was processed before it for the
\* series: (series, min, max) for 0, 1 and 4; (series, mean) for 7;
\* (autocorrelation, length) for 2 and 3; (series, first-zero lag) for 8,
\* 10 and 12; (series, FFT) for 15 and 20; the outlier series alone for 13
\* and 14; the series alone for every other index below 22; 22 and 23 call
\* no registry kernel.
C27_AsStated == InvokedWith(TRUE)

\* C27, amended: as stated, except that 13 and 14 receive the normalised
\* outlier series only under outlier_norm and the series itself otherwise.
C27_DeclaredArguments == InvokedWith(outlier_norm)

\* The mean that feature 15 stored was handed to feature 7 after it, next to
\* the series.
C27_Witness ==
    /\ ~use_pycatch22_transform
    /\ f_idx = <<15, 7>>
    /\ n_cases = 1
    /\ task[1].st = "done"
    /\ Len(X[1][1]) = SeriesLen
    /\ task[1].c22[1].args = <<SeriesArg(X[1][1]), np_fft(X[1][1], mean(X[1][1]))>>
    /\ task[1].c22[2].args = <<SeriesArg(X[1][1]), mean(X[1][1])>>
    /\ task[1].times.smean = 1

\* The `features` list of _transform, the native registry: the attributes
\* of Catch22 in the order of the list.
Registry ==
    << "_DN_HistogramMode_5",
       "_DN_HistogramMode_10",
       "_CO_f1ecac",
       "_CO_FirstMin_ac",
       "_CO_HistogramAMI_even_2_5",
       "_CO_trev_1_num",
       "_MD_hrv_classic_pnn40",
       "_SB_BinaryStats_mean_longstretch1",
       "_SB_TransitionMatrix_3ac_sumdiagcov",
       "_PD_PeriodicityWang_th0_01",
       "_CO_Embed2_Dist_tau_d_expfit_meandiff",
       "_IN_AutoMutualInfoStats_40_gaussian_fmmi",
       "_FC_LocalSimple_mean1_tauresrat",
       "_DN_OutlierInclude_p_001_mdrmd",
       "_DN_OutlierInclude_n_001_mdrmd",
       "_SP_Summaries_welch_rect_area_5_1",
       "_SB_BinaryStats_diff_longstretch0",
       "_SB_MotifThree_quantile_hh",
       "_SC_FluctAnal_2_rsrangefit_50_1_logi_prop_r1",
       "_SC_FluctAnal_2_dfa_50_1_2_logi_prop_r1",
       "_SP_Summaries_welch_rect_centroid",
       "_FC_LocalSimple_mean3_stderr" >>

\* The kernel a short name stands for, for the two spectral features: the
\* centroid of the power spectrum (_summaries_welch_rect with centroid =
\* True) and the power in the lowest fifth of the frequencies (centroid =
\* False).
SpectralKernel(short) ==
    IF short = "centroid_freq" THEN "_SP_Summaries_welch_rect_centroid"
    ELSE "_SP_Summaries_welch_rect_area_5_1"

\* C28: the long-name table, the short-name table and the kernel registry
\* are aligned: the kernel at registry position i is the one named by the
\* long name at position i, a short name resolves to the position of the
\* long name it abbreviates, and a transform asked for 'centroid_freq'
\* invokes the spectral-centroid kernel, one asked for 'low_freq_power' the
\* low-frequency-area kernel.
C28_TablesAligned ==
    /\ Len(Registry) = Len(feature_names)
    /\ Len(feature_names_short) = Len(feature_names)
    /\ \A i \in 1..Len(feature_names) : Registry[i] = "_" \o feature_names[i]
    /\ \A s \in {"centroid_freq", "low_freq_power"} :
          (features = PyStr(s) /\ kernels = "aeon") =>
              \A e \in EntriesWritten : Registry[e.k + 1] = SpectralKernel(s)

\* C29: a fit that raises leaves lambda_ as it was before the call (None if
\* the transformer was never fitted, the earlier lambda otherwise): lambda_
\* changes only in the step that completes a fit, which assigns the fitted
\* value.
C29_FailedFitKeepsLambda ==
    [][/\ (lambda_' # lambda_) => (fit_pc' = "done" /\ lambda_' = <<"fitted">>)
       /\ (fit_pc' = "raised") => (lambda_' = lambda_)]_vars

\* A guerrero fit of a transformer that holds an earlier lambda has raised
\* on its seasonal periodicity.
C29_Witness ==
    /\ fit_pc = "raised"
    /\ lambda_ = <<"prior">>
    /\ fit_error = "sp"
    /\ method = "guerrero"

\* The mask a call of case i is to obey: the attribute when it is there and
\* has len(f_idx) * n_channels entries, all true otherwise.
MaskOf(i) ==
    IF /\ _transform_features # <<>>
       /\ Len(_transform_features[1]) = Len(f_idx) * Len(X[i])
    THEN _transform_features[1]
    ELSE [k \in 1..(Len(f_idx) * Len(X[i])) |-> TRUE]

\* The loop body without the test of the mask.
UnmaskedStep(t, case) ==
    IF use_pycatch22_transform
    THEN TransformCasePycatch22Step(t, case, f_idx, outlier_norm, kernels)
    ELSE TransformCaseStep(t, case, f_idx, outlier_norm, kernels)

\* The vector of a case computed without a mask, when no kernel raises.
RECURSIVE RunUnmasked(_, _)
RunUnmasked(t, case) ==
    IF LoopsDone(t, case) THEN <<t.c22>>
    ELSE IF KernelEnd(t, case, f_idx, outlier_norm, kernels)
                \in {"raise", "either"}
    THEN <<>>
    ELSE RunUnmasked(UnmaskedStep(t, case), case)

UnmaskedVector(case) == RunUnmasked(EnterCase(f_idx, case), case)

\* The entries of a returned vector: those the mask excludes are still the 0
\* of np.zeros, the others were assigned, with the values of a run without
\* a mask.
MaskedEntries ==
    \A i \in 1..n_cases :
        task[i].st = "done" =>
            /\ Len(task[i].c22) = Len(f_idx) * Len(X[i])
            /\ \A p \in 1..Len(task[i].c22) :
                  IF MaskOf(i)[p]
                  THEN /\ task[i].c22[p] # Zero
                       /\ UnmaskedVector(X[i]) # <<>> =>
                             task[i].c22[p] = UnmaskedVector(X[i])[1][p]
                  ELSE task[i].c22[p] = Zero

\* The iteration of an entry the mask excludes: it invokes no kernel,
\* computes no shared quantity and writes nothing.
MaskedIterationIdle ==
    \A i \in 1..n_cases :
        (/\ task[i].st = "running"
         /\ ~LoopsDone(task[i], X[i])
         /\ ~MaskOf(i)[task[i].f_count + 2]
         /\ task'[i] # task[i]
         /\ task'[i].st = "running")
            => /\ task'[i].c22 = task[i].c22
               /\ task'[i].ncalls = task[i].ncalls
               /\ task'[i].nshared = task[i].nshared

\* C30: the _transform_features mask only suppresses work: with an
\* attribute of len(f_idx) * n_channels entries, exactly the entries whose
\* mask value is false stay 0, no kernel and no shared quantity is computed
\* on their behalf, and the other entries have the values they have without
\* a mask; without the attribute, or with one of any other length, every
\* entry is computed.
C30_MaskOnlySuppresses == []MaskedEntries /\ [][MaskedIterationIdle]_vars

=============================================================================
